---- MODULE Spec2Model ----
(***************************************************************************)
(* Resilient: the tree-walking interpreter of src/resilient/src/main.rs    *)
(* (Interpreter, Environment, Value), its live-block retry loop, the       *)
(* assert statement, the static type checker of                            *)
(* src/resilient/src/typechecker.rs and the two drivers that run a parsed  *)
(* program (execute_file, start_repl).                                     *)
(*                                                                         *)
(* The interpreter's recursion eval -> eval_... -> eval is unfolded into a *)
(* control register (ctl), a stack of pending callers (kont) and a stack   *)
(* of Interpreter values (envs): one action per match arm of eval and one  *)
(* per place where a callee's RResult comes back to its caller.            *)
(***************************************************************************)
EXTENDS Integers, Sequences, FiniteSets, TLC

(***************************************************************************)
(* Bounds of the model.                                                    *)
(***************************************************************************)
\* how many programs one behaviour hands to a driver, one after the other
MaxInputs == 2

(***************************************************************************)
(* enum Value (main.rs 714-727).  A Float is an exact rational num/den in  *)
(* lowest terms with den > 0; the programs of this model only produce      *)
(* floats that f64 represents exactly.  The payload of a variant is named  *)
(* by its type (i, s, b; v for the boxed Value of a Return).               *)
(***************************************************************************)
ValueInt(i) == [t |-> "Int", i |-> i]

ValueFloat(n, d) == [t |-> "Float", num |-> n, den |-> d]

ValueString(s) == [t |-> "String", s |-> s]

ValueBool(b) == [t |-> "Bool", b |-> b]

ValueFunction(parameters, body, env) ==
    [t |-> "Function", parameters |-> parameters, body |-> body, env |-> env]

ValueReturn(value) == [t |-> "Return", v |-> value]

ValueVoid == [t |-> "Void"]

\* type RResult<T> = Result<T, String>
Ok(value) == [ok |-> TRUE, value |-> value]

Err(error) == [ok |-> FALSE, error |-> error]

(***************************************************************************)
(* Rationals for f64 arithmetic.                                           *)
(***************************************************************************)
Abs(i) == IF i < 0 THEN -i ELSE i

RECURSIVE Gcd(_, _)
Gcd(a, b) == IF b = 0 THEN a ELSE Gcd(b, a % b)

\* the float num/den, normalised
MkFloat(n, d) ==
    LET s == IF d < 0 THEN -1 ELSE 1
        g == Gcd(Abs(n), Abs(d))
    IN  ValueFloat((s * n) \div g, (s * d) \div g)

\* `i as f64`
IntAsFloat(i) == ValueFloat(i, 1)

\* the digits an f64 is written with after the decimal point, at most
FloatDigits == 16

\* the first n digits after the decimal point of r/d (0 <= r < d)
RECURSIVE FracDigitsUpTo(_, _, _)
FracDigitsUpTo(r, d, n) ==
    IF r = 0 \/ n = 0 THEN ""
    ELSE ToString((10 * r) \div d) \o FracDigitsUpTo((10 * r) % d, d, n - 1)

\* the digits after the decimal point of r/d (0 <= r < d)
FracDigits(r, d) == FracDigitsUpTo(r, d, FloatDigits)

\* write!(f, "{}", fl) for an f64: 2.0 prints as 2, 0.5 as 0.5
FloatDisplay(n, d) ==
    LET a == Abs(n)
    IN  (IF n < 0 THEN "-" ELSE "") \o ToString(a \div d)
        \o (IF a % d = 0 THEN "" ELSE "." \o FracDigits(a % d, d))

\* impl Display for Value (main.rs 729-741)
RECURSIVE Display(_)
Display(value) ==
    CASE value.t = "Int" -> ToString(value.i)
      [] value.t = "Float" -> FloatDisplay(value.num, value.den)
      [] value.t = "String" -> "\"" \o value.s \o "\""
      [] value.t = "Bool" -> (IF value.b THEN "true" ELSE "false")
      [] value.t = "Function" -> "<function>"
      [] value.t = "Return" -> Display(value.v)
      [] value.t = "Void" -> "void"

(***************************************************************************)
(* struct Environment (main.rs 747-784): a store and an optional outer     *)
(* environment (a sequence of length 0 or 1).  Environments are values:    *)
(* clone() is the identity on them, and a clone never aliases.             *)
(***************************************************************************)
EmptyStore == [name \in {} |-> ValueVoid]

Environment_new == [store |-> EmptyStore, outer |-> <<>>]

new_enclosed(outer) == [store |-> EmptyStore, outer |-> <<outer>>]

\* Environment::get: Option<Value> as a sequence of length 0 or 1
RECURSIVE get(_, _)
get(env, name) ==
    IF name \in DOMAIN env.store THEN <<env.store[name]>>
    ELSE IF env.outer # <<>> THEN get(env.outer[1], name)
    ELSE <<>>

\* Environment::set: insert into the innermost store
set(env, name, value) ==
    [env EXCEPT !.store =
        [n \in (DOMAIN env.store) \cup {name} |->
            IF n = name THEN value ELSE env.store[n]]]

(***************************************************************************)
(* enum Node (main.rs 263-311).  Option<Box<Node>> is a sequence of length *)
(* 0 or 1; the payload of a literal is named by its type (i, s, b).         *)
(***************************************************************************)
Program(statements) == [node |-> "Program", statements |-> statements]

Function(name, parameters, body) ==
    [node |-> "Function", name |-> name, parameters |-> parameters, body |-> body]

LiveBlock(body) == [node |-> "LiveBlock", body |-> body]

AssertNode(condition, message) ==
    [node |-> "Assert", condition |-> condition, message |-> message]

Block(statements) == [node |-> "Block", statements |-> statements]

LetStatement(name, value) == [node |-> "LetStatement", name |-> name, value |-> value]

ReturnStatement(value) == [node |-> "ReturnStatement", value |-> value]

IfStatement(condition, consequence, alternative) ==
    [node |-> "IfStatement", condition |-> condition,
     consequence |-> consequence, alternative |-> alternative]

ExpressionStatement(expr) == [node |-> "ExpressionStatement", expr |-> expr]

Identifier(name) == [node |-> "Identifier", name |-> name]

IntegerLiteral(value) == [node |-> "IntegerLiteral", i |-> value]

\* a float literal num/den
FloatLiteral(n, d) == [node |-> "FloatLiteral", num |-> n, den |-> d]

StringLiteral(value) == [node |-> "StringLiteral", s |-> value]

BooleanLiteral(value) == [node |-> "BooleanLiteral", b |-> value]

PrefixExpression(operator, right) ==
    [node |-> "PrefixExpression", operator |-> operator, right |-> right]

InfixExpression(left, operator, right) ==
    [node |-> "InfixExpression", left |-> left, operator |-> operator, right |-> right]

CallExpression(function, arguments) ==
    [node |-> "CallExpression", function |-> function, arguments |-> arguments]

(***************************************************************************)
(* The evaluator's pure helpers (main.rs 943-1043, 1080-1088).             *)
(***************************************************************************)
\* Interpreter::is_truthy
is_truthy(value) ==
    CASE value.t = "Bool" -> value.b
      [] value.t = "Int" -> value.i # 0
      [] value.t = "Float" -> value.num # 0
      [] value.t = "String" -> value.s # ""
      [] OTHER -> TRUE

\* Interpreter::eval_bang_operator_expression
eval_bang_operator_expression(right) ==
    CASE right.t = "Bool" -> Ok(ValueBool(~right.b))
      [] right.t = "Int" -> Ok(ValueBool(right.i = 0))
      [] right.t = "Float" -> Ok(ValueBool(right.num = 0))
      [] right.t = "String" -> Ok(ValueBool(right.s = ""))
      [] OTHER -> Ok(ValueBool(FALSE))

\* Interpreter::eval_minus_prefix_operator_expression
eval_minus_prefix_operator_expression(right) ==
    CASE right.t = "Int" -> Ok(ValueInt(-right.i))
      [] right.t = "Float" -> Ok(ValueFloat(-right.num, right.den))
      [] OTHER -> Err("Unknown operator: -" \o Display(right))

\* Interpreter::eval_prefix_expression
eval_prefix_expression(operator, right) ==
    CASE operator = "!" -> eval_bang_operator_expression(right)
      [] operator = "-" -> eval_minus_prefix_operator_expression(right)
      [] OTHER -> Err("Unknown operator: " \o operator \o Display(right))

\* i64 `/`: the quotient truncated toward zero
TruncDiv(left, right) ==
    LET q == Abs(left) \div Abs(right)
    IN  IF (left < 0) = (right < 0) THEN q ELSE -q

\* the width of an i64, scaled down: the integers are MinInt..MaxInt
IntBits == 8

MinInt == -(2 ^ (IntBits - 1))

MaxInt == 2 ^ (IntBits - 1) - 1

\* the two's complement value of the exact result i
Wrap(i) == ((i - MinInt) % (2 ^ IntBits)) + MinInt

\* a panic of the process, with its message
Panic(message) == [panic |-> message]

IsPanic(outcome) == "panic" \in DOMAIN outcome

\* `left + right`, `left - right`, `left * right` on i64 with the exact
\* result `exact`: a build with overflow checks panics on overflow, a build
\* without them wraps
Unchecked(exact, what) ==
    IF MinInt <= exact /\ exact <= MaxInt
    THEN {Ok(ValueInt(exact))}
    ELSE {Ok(ValueInt(Wrap(exact))), Panic("attempt to " \o what \o " with overflow")}

\* variant: the `/` arm without its zero test
integer_division_by_zero_untested(right) == FALSE

\* the zero test of the `/` arm
integer_division_by_zero(right) == right = 0

\* `left / right` on i64: a zero divisor panics, and so does i64::MIN / -1,
\* in every build
Divide(left, right) ==
    IF right = 0 THEN {Panic("attempt to divide by zero")}
    ELSE IF left = MinInt /\ right = -1
    THEN {Panic("attempt to divide with overflow")}
    ELSE {Ok(ValueInt(TruncDiv(left, right)))}

\* Interpreter::eval_integer_infix_expression: the set of its outcomes
eval_integer_infix_expression(operator, left, right) ==
    CASE operator = "+" -> Unchecked(left + right, "add")
      [] operator = "-" -> Unchecked(left - right, "subtract")
      [] operator = "*" -> Unchecked(left * right, "multiply")
      [] operator = "/" ->
            (IF integer_division_by_zero(right) THEN {Err("Division by zero")}
             ELSE Divide(left, right))
      [] operator = "==" -> {Ok(ValueBool(left = right))}
      [] operator = "!=" -> {Ok(ValueBool(left # right))}
      [] operator = "<" -> {Ok(ValueBool(left < right))}
      [] operator = ">" -> {Ok(ValueBool(left > right))}
      [] operator = "<=" -> {Ok(ValueBool(left <= right))}
      [] operator = ">=" -> {Ok(ValueBool(left >= right))}
      [] OTHER -> {Err("Unknown operator: " \o ToString(left) \o " " \o operator
                       \o " " \o ToString(right))}

\* Interpreter::eval_float_infix_expression, on the floats left and right
eval_float_infix_expression(operator, left, right) ==
    LET ln == left.num
        ld == left.den
        rn == right.num
        rd == right.den
    IN  CASE operator = "+" -> Ok(MkFloat(ln * rd + rn * ld, ld * rd))
          [] operator = "-" -> Ok(MkFloat(ln * rd - rn * ld, ld * rd))
          [] operator = "*" -> Ok(MkFloat(ln * rn, ld * rd))
          [] operator = "/" ->
                (IF rn = 0 THEN Err("Division by zero")
                 ELSE Ok(MkFloat(ln * rd, ld * rn)))
          [] operator = "==" -> Ok(ValueBool(ln * rd = rn * ld))
          [] operator = "!=" -> Ok(ValueBool(ln * rd # rn * ld))
          [] operator = "<" -> Ok(ValueBool(ln * rd < rn * ld))
          [] operator = ">" -> Ok(ValueBool(ln * rd > rn * ld))
          [] operator = "<=" -> Ok(ValueBool(ln * rd <= rn * ld))
          [] operator = ">=" -> Ok(ValueBool(ln * rd >= rn * ld))
          [] OTHER -> Err("Unknown operator: " \o FloatDisplay(ln, ld) \o " "
                          \o operator \o " " \o FloatDisplay(rn, rd))

\* Interpreter::eval_string_infix_expression
eval_string_infix_expression(operator, left, right) ==
    CASE operator = "+" -> Ok(ValueString(left \o right))
      [] operator = "==" -> Ok(ValueBool(left = right))
      [] operator = "!=" -> Ok(ValueBool(left # right))
      [] OTHER -> Err("Unknown operator: " \o left \o " " \o operator \o " " \o right)

\* Interpreter::eval_boolean_infix_expression
eval_boolean_infix_expression(operator, left, right) ==
    CASE operator = "==" -> Ok(ValueBool(left = right))
      [] operator = "!=" -> Ok(ValueBool(left # right))
      [] OTHER -> Err("Unknown operator: " \o (IF left THEN "true" ELSE "false")
                      \o " " \o operator \o " " \o (IF right THEN "true" ELSE "false"))

\* Interpreter::eval_infix_expression: the set of its outcomes
eval_infix_expression(operator, left, right) ==
    CASE left.t = "Int" /\ right.t = "Int" ->
            eval_integer_infix_expression(operator, left.i, right.i)
      [] left.t = "Float" /\ right.t = "Float" ->
            {eval_float_infix_expression(operator, left, right)}
      [] left.t = "Int" /\ right.t = "Float" ->
            {eval_float_infix_expression(operator, IntAsFloat(left.i), right)}
      [] left.t = "Float" /\ right.t = "Int" ->
            {eval_float_infix_expression(operator, left, IntAsFloat(right.i))}
      [] left.t = "String" /\ right.t = "String" ->
            {eval_string_infix_expression(operator, left.s, right.s)}
      [] left.t = "Bool" /\ right.t = "Bool" ->
            {eval_boolean_infix_expression(operator, left.b, right.b)}
      [] OTHER -> {Err("Type mismatch: " \o Display(left) \o " " \o operator
                       \o " " \o Display(right))}

(***************************************************************************)
(* The type checker (typechecker.rs).  TypeEnvironment has the structure   *)
(* of Environment (a store and an optional outer one) and shares get, set  *)
(* and new_enclosed with it.  check_node takes the checker's environment   *)
(* and gives back Result<Type, String> together with the environment the   *)
(* checker is left with: [ok, typ, env] or [ok, error].                    *)
(***************************************************************************)
TypeInt == [t |-> "Int"]

TypeFloat == [t |-> "Float"]

TypeString == [t |-> "String"]

TypeBool == [t |-> "Bool"]

TypeVoid == [t |-> "Void"]

TypeAny == [t |-> "Any"]

TypeFunction(params, return_type) ==
    [t |-> "Function", params |-> params, return_type |-> return_type]

TOk(typ, env) == [ok |-> TRUE, typ |-> typ, env |-> env]

TErr(error) == [ok |-> FALSE, error |-> error]

\* impl Display for Type (typechecker.rs 19-40)
RECURSIVE TypeDisplay(_)
RECURSIVE TypeDisplayParams(_, _)
TypeDisplayParams(params, i) ==
    IF i > Len(params) THEN ""
    ELSE (IF i > 1 THEN ", " ELSE "") \o TypeDisplay(params[i])
         \o TypeDisplayParams(params, i + 1)

TypeDisplay(typ) ==
    CASE typ.t = "Int" -> "int"
      [] typ.t = "Float" -> "float"
      [] typ.t = "String" -> "string"
      [] typ.t = "Bool" -> "bool"
      [] typ.t = "Function" ->
            "fn(" \o TypeDisplayParams(typ.params, 1) \o ") -> "
            \o TypeDisplay(typ.return_type)
      [] typ.t = "Void" -> "void"
      [] typ.t = "Any" -> "any"

\* TypeChecker::new: the built-in println
TypeChecker_new ==
    set(Environment_new, "println", TypeFunction(<<TypeAny>>, TypeVoid))

\* variant: parse_type_name without the arm for the empty name
parse_type_name_no_any(name) ==
    CASE name = "int" -> [ok |-> TRUE, typ |-> TypeInt]
      [] name = "float" -> [ok |-> TRUE, typ |-> TypeFloat]
      [] name = "string" -> [ok |-> TRUE, typ |-> TypeString]
      [] name = "bool" -> [ok |-> TRUE, typ |-> TypeBool]
      [] name = "void" -> [ok |-> TRUE, typ |-> TypeVoid]
      [] OTHER -> [ok |-> FALSE, error |-> "Unknown type: " \o name]

\* TypeChecker::parse_type_name: Result<Type, String> as [ok, typ] / [ok, error]
parse_type_name(name) ==
    CASE name = "int" -> [ok |-> TRUE, typ |-> TypeInt]
      [] name = "float" -> [ok |-> TRUE, typ |-> TypeFloat]
      [] name = "string" -> [ok |-> TRUE, typ |-> TypeString]
      [] name = "bool" -> [ok |-> TRUE, typ |-> TypeBool]
      [] name = "void" -> [ok |-> TRUE, typ |-> TypeVoid]
      [] name = "" -> [ok |-> TRUE, typ |-> TypeAny]
      [] OTHER -> [ok |-> FALSE, error |-> "Unknown type: " \o name]

\* the parameter loop of the Function arm (typechecker.rs 126-130): the
\* parameter types so far and the function's environment, or the first error
RECURSIVE check_parameters(_, _, _, _)
check_parameters(parameters, i, param_types, function_env) ==
    IF i > Len(parameters) THEN TOk(param_types, function_env)
    ELSE LET param_type == parse_type_name(parameters[i][1])
         IN  IF ~param_type.ok THEN TErr(param_type.error)
             ELSE check_parameters(parameters, i + 1,
                                   Append(param_types, param_type.typ),
                                   set(function_env, parameters[i][2], param_type.typ))

RECURSIVE check_node(_, _)
RECURSIVE check_statements(_, _, _, _)
RECURSIVE check_arguments(_, _, _, _)

\* `for stmt in statements { result_type = self.check_node(stmt)?; }`
check_statements(statements, i, result_type, env) ==
    IF i > Len(statements) THEN TOk(result_type, env)
    ELSE LET r == check_node(statements[i], env)
         IN  IF ~r.ok THEN r
             ELSE check_statements(statements, i + 1, r.typ, r.env)

\* the argument loop of the CallExpression arm (typechecker.rs 308-314)
check_arguments(arguments, params, i, env) ==
    IF i > Len(arguments) THEN TOk(TypeVoid, env)
    ELSE LET r == check_node(arguments[i], env)
         IN  IF ~r.ok THEN r
             ELSE IF r.typ # params[i] /\ params[i] # TypeAny /\ r.typ # TypeAny
             THEN TErr("Type mismatch in argument " \o ToString(i) \o ": expected "
                       \o TypeDisplay(params[i]) \o ", got " \o TypeDisplay(r.typ))
             ELSE check_arguments(arguments, params, i + 1, r.env)

\* TypeChecker::check_node (typechecker.rs 115-327)
check_node(node, env) ==
    CASE node.node = "Program" ->
            check_statements(node.statements, 1, TypeVoid, env)
      [] node.node = "Function" ->
            LET ps == check_parameters(node.parameters, 1, <<>>, new_enclosed(env))
            IN  IF ~ps.ok THEN ps
                ELSE LET body == check_node(node.body, ps.env)
                     IN  IF ~body.ok THEN body
                         ELSE TOk(body.typ,
                                  set(env, node.name, TypeFunction(ps.typ, body.typ)))
      [] node.node = "LiveBlock" -> check_node(node.body, env)
      [] node.node = "Assert" ->
            LET c == check_node(node.condition, env)
            IN  IF ~c.ok THEN c
                ELSE IF c.typ # TypeBool /\ c.typ # TypeAny
                THEN TErr("Assert condition must be a boolean, got " \o TypeDisplay(c.typ))
                ELSE IF node.message = <<>> THEN TOk(TypeVoid, c.env)
                ELSE LET m == check_node(node.message[1], c.env)
                     IN  IF ~m.ok THEN m
                         ELSE IF m.typ # TypeString /\ m.typ # TypeAny
                         THEN TErr("Assert message must be a string, got "
                                   \o TypeDisplay(m.typ))
                         ELSE TOk(TypeVoid, m.env)
      [] node.node = "Block" ->
            LET r == check_statements(node.statements, 1, TypeVoid, new_enclosed(env))
            IN  IF ~r.ok THEN r ELSE TOk(r.typ, env)
      [] node.node = "LetStatement" ->
            LET v == check_node(node.value, env)
            IN  IF ~v.ok THEN v ELSE TOk(TypeVoid, set(v.env, node.name, v.typ))
      [] node.node = "ReturnStatement" -> check_node(node.value, env)
      [] node.node = "IfStatement" ->
            LET c == check_node(node.condition, env)
            IN  IF ~c.ok THEN c
                ELSE IF c.typ # TypeBool /\ c.typ # TypeAny
                THEN TErr("If condition must be a boolean, got " \o TypeDisplay(c.typ))
                ELSE LET cons == check_node(node.consequence, c.env)
                     IN  IF ~cons.ok THEN cons
                         ELSE IF node.alternative = <<>> THEN cons
                         ELSE LET alt == check_node(node.alternative[1], cons.env)
                              IN  IF ~alt.ok THEN alt
                                  ELSE IF cons.typ # alt.typ /\ cons.typ # TypeAny
                                          /\ alt.typ # TypeAny
                                  THEN TErr("If branches have incompatible types: "
                                            \o TypeDisplay(cons.typ) \o " and "
                                            \o TypeDisplay(alt.typ))
                                  ELSE TOk(cons.typ, alt.env)
      [] node.node = "ExpressionStatement" -> check_node(node.expr, env)
      [] node.node = "Identifier" ->
            LET typ == get(env, node.name)
            IN  IF typ # <<>> THEN TOk(typ[1], env)
                ELSE TErr("Undefined variable: " \o node.name)
      [] node.node = "IntegerLiteral" -> TOk(TypeInt, env)
      [] node.node = "FloatLiteral" -> TOk(TypeFloat, env)
      [] node.node = "StringLiteral" -> TOk(TypeString, env)
      [] node.node = "BooleanLiteral" -> TOk(TypeBool, env)
      [] node.node = "PrefixExpression" ->
            LET r == check_node(node.right, env)
            IN  IF ~r.ok THEN r
                ELSE CASE node.operator = "!" ->
                            (IF r.typ # TypeBool /\ r.typ # TypeAny
                             THEN TErr("Cannot apply '!' to " \o TypeDisplay(r.typ))
                             ELSE TOk(TypeBool, r.env))
                       [] node.operator = "-" ->
                            (IF r.typ # TypeInt /\ r.typ # TypeFloat /\ r.typ # TypeAny
                             THEN TErr("Cannot apply '-' to " \o TypeDisplay(r.typ))
                             ELSE r)
                       [] OTHER -> TErr("Unknown prefix operator: " \o node.operator)
      [] node.node = "InfixExpression" ->
            LET l == check_node(node.left, env)
            IN  IF ~l.ok THEN l
                ELSE LET r == check_node(node.right, l.env)
                         numeric(typ) == typ = TypeInt \/ typ = TypeFloat \/ typ = TypeAny
                     IN  IF ~r.ok THEN r
                         ELSE CASE node.operator \in {"+", "-", "*", "/"} ->
                                (IF numeric(l.typ) /\ numeric(r.typ)
                                 THEN (IF l.typ = TypeFloat \/ r.typ = TypeFloat
                                       THEN TOk(TypeFloat, r.env)
                                       ELSE TOk(TypeInt, r.env))
                                 ELSE IF node.operator = "+"
                                         /\ (l.typ = TypeString \/ r.typ = TypeString)
                                 THEN TOk(TypeString, r.env)
                                 ELSE TErr("Cannot apply '" \o node.operator \o "' to "
                                           \o TypeDisplay(l.typ) \o " and "
                                           \o TypeDisplay(r.typ)))
                           [] node.operator \in {"==", "!=", "<", ">", "<=", ">="} ->
                                (IF l.typ = r.typ \/ l.typ = TypeAny \/ r.typ = TypeAny
                                 THEN TOk(TypeBool, r.env)
                                 ELSE TErr("Cannot compare " \o TypeDisplay(l.typ)
                                           \o " and " \o TypeDisplay(r.typ)))
                           [] OTHER -> TErr("Unknown infix operator: " \o node.operator)
      [] node.node = "CallExpression" ->
            LET f == check_node(node.function, env)
            IN  IF ~f.ok THEN f
                ELSE CASE f.typ.t = "Function" ->
                            (IF Len(node.arguments) # Len(f.typ.params)
                             THEN TErr("Expected " \o ToString(Len(f.typ.params))
                                       \o " arguments, got "
                                       \o ToString(Len(node.arguments)))
                             ELSE LET a == check_arguments(node.arguments,
                                                           f.typ.params, 1, f.env)
                                  IN  IF ~a.ok THEN a
                                      ELSE TOk(f.typ.return_type, a.env))
                       [] f.typ.t = "Any" -> TOk(TypeAny, f.env)
                       [] OTHER -> TErr("Cannot call non-function type: "
                                        \o TypeDisplay(f.typ))

\* TypeChecker::check_program on a fresh checker (typechecker.rs 100-113)
check_program(program) ==
    IF program.node = "Program"
    THEN check_statements(program.statements, 1, TypeVoid, TypeChecker_new)
    ELSE TErr("Expected program node")

(***************************************************************************)
(* The state.                                                              *)
(***************************************************************************)
VARIABLES
    driver,     \* "file": main runs execute_file; "repl": main runs start_repl
    type_check, \* execute_file's type_check argument / the REPL's type_check_enabled
    program,    \* the Node last handed to the driver
    inputs,     \* how many programs the driver was handed so far
    ctl,        \* [mode |-> "idle"]: the driver waits for a program;
                \* [mode |-> "eval", node]: eval(node) was just called;
                \* [mode |-> "ret", res]: an eval returned the RResult res;
                \* [mode |-> "abort", message]: the process panicked
    kont,       \* the callers waiting for that RResult, innermost first
    envs,       \* the env of every live Interpreter, the running one first
    output,     \* what the driver's caller got for the last program
    hist,       \* history of the current run (not program state)
    prev,       \* history: the file run before this one (not program state)
    parser,     \* parse_program of parser.rs at work: the Parser, the local
                \* `program`, the place in the loop and the result
    lexer       \* a Lexer of main.rs whose next_token is called again and
                \* again, with the build it runs in and the last Token

vars == <<driver, type_check, program, inputs, ctl, kont, envs, output, hist, prev, parser,
          lexer>>

\* const MAX_RETRIES: usize = 3 (main.rs 889)
MAX_RETRIES == 3

Idle == [mode |-> "idle"]

EvalOf(node) == [mode |-> "eval", node |-> node]

Ret(res) == [mode |-> "ret", res |-> res]

\* the process panicked with this message: nothing runs after it
Abort(message) == [mode |-> "abort", message |-> message]

\* the LiveBlock frames of a stack, innermost first
LiveFrames(stack) == SelectSeq(stack, LAMBDA f : f.k = "LiveBlock")

\* add 1 to counter d of the sequence of counters
Bump(counters, d) ==
    [i \in 1..(IF d > Len(counters) THEN d ELSE Len(counters)) |->
        (IF i <= Len(counters) THEN counters[i] ELSE 0) + (IF i = d THEN 1 ELSE 0)]

HistInit ==
    [body_evals |-> <<>>,   \* per nesting depth, how often a live body was started
     restores |-> 0,        \* how often self.env was restored from a snapshot
     last_exit |-> <<>>,    \* the last eval_live_block that returned
     final |-> <<>>]        \* the RResult of the program and the env it left

NoPrev == <<>>

NoOutput == [kind |-> "none"]

\* no Parser of parser.rs is at work
NoParser == [pc |-> "none"]

\* no Lexer is called on its own
NoLexer == [pc |-> "none"]

self_env == Head(envs)

(***************************************************************************)
(* Interpreter::eval (main.rs 798-858): one action per match arm.  An arm  *)
(* that first evaluates a child pushes a frame naming what waits for the   *)
(* child's RResult.                                                        *)
(***************************************************************************)
Evaluating(kind) == ctl.mode = "eval" /\ ctl.node.node = kind

\* a frame of kind k waits on top of the stack and an RResult came back
Returned(k) == ctl.mode = "ret" /\ kont # <<>> /\ Head(kont).k = k

\* the loops of eval_program and eval_block_statement, entered:
\* `let mut result = Value::Void; for statement in statements {`
StatementsEnter(k, statements) ==
    IF statements = <<>>
    THEN [ctl |-> Ret(Ok(ValueVoid)), push |-> <<>>]
    ELSE [ctl |-> EvalOf(statements[1]),
          push |-> <<[k |-> k, statements |-> statements, i |-> 1]>>]

\* Node::Program(statements) => self.eval_program(statements)
EvalProgram ==
    /\ Evaluating("Program")
    /\ LET r == StatementsEnter("Program", ctl.node.statements)
       IN  ctl' = r.ctl /\ kont' = r.push \o kont
    /\ UNCHANGED <<driver, type_check, program, inputs, envs, output, hist, prev>>
    /\ UNCHANGED <<parser, lexer>>

\* Node::Block(statements) => self.eval_block_statement(statements)
EvalBlock ==
    /\ Evaluating("Block")
    /\ LET r == StatementsEnter("Block", ctl.node.statements)
       IN  ctl' = r.ctl /\ kont' = r.push \o kont
    /\ UNCHANGED <<driver, type_check, program, inputs, envs, output, hist, prev>>
    /\ UNCHANGED <<parser, lexer>>

\* Node::Function with `self.env.set(name, ..)` before `env: self.env.clone()`:
\* the closure is over an env that binds the name already, to the function
\* itself as far as a value can hold it
EvalFunction_bound_first ==
    /\ Evaluating("Function")
    /\ LET bound == set(self_env, ctl.node.name,
                        ValueFunction(ctl.node.parameters, ctl.node.body, self_env))
           func == ValueFunction(ctl.node.parameters, ctl.node.body, bound)
       IN  envs' = <<set(self_env, ctl.node.name, func)>> \o Tail(envs)
    /\ ctl' = Ret(Ok(ValueVoid))
    /\ UNCHANGED <<driver, type_check, program, inputs, kont, output, hist, prev>>
    /\ UNCHANGED <<parser, lexer>>

\* Node::Function: bind the name to a closure over a clone of self.env
EvalFunction ==
    /\ Evaluating("Function")
    /\ LET func == ValueFunction(ctl.node.parameters, ctl.node.body, self_env)
       IN  envs' = <<set(self_env, ctl.node.name, func)>> \o Tail(envs)
    /\ ctl' = Ret(Ok(ValueVoid))
    /\ UNCHANGED <<driver, type_check, program, inputs, kont, output, hist, prev>>
    /\ UNCHANGED <<parser, lexer>>

\* eval_live_block with one retry counter for all live blocks: a nested
\* block goes on from the count of the block around it
EvalLiveBlock_shared_counter ==
    /\ Evaluating("LiveBlock")
    /\ kont' = <<[k |-> "LiveBlock", body |-> ctl.node.body,
                  retry_count |-> IF LiveFrames(kont) = <<>> THEN 0
                                  ELSE LiveFrames(kont)[1].retry_count,
                  env_snapshot |-> self_env,
                  attempts |-> 1, entry_env |-> self_env, first_env |-> <<>>,
                  first_error |-> <<>>]>>
               \o kont
    /\ ctl' = EvalOf(ctl.node.body)
    /\ hist' = [hist EXCEPT !.body_evals = Bump(@, Len(LiveFrames(kont)) + 1)]
    /\ UNCHANGED <<driver, type_check, program, inputs, envs, output, prev>>
    /\ UNCHANGED <<parser, lexer>>

\* Node::LiveBlock => eval_live_block: retry_count = 0, the snapshot, and
\* the first self.eval(body) of the loop (main.rs 888-897).  attempts,
\* entry_env, first_env and first_error are history: the bodies started by
\* this call, self.env at the call, and what the first attempt left.
EvalLiveBlock ==
    /\ Evaluating("LiveBlock")
    /\ kont' = <<[k |-> "LiveBlock", body |-> ctl.node.body, retry_count |-> 0,
                  env_snapshot |-> self_env,
                  attempts |-> 1, entry_env |-> self_env, first_env |-> <<>>,
                  first_error |-> <<>>]>>
               \o kont
    /\ ctl' = EvalOf(ctl.node.body)
    /\ hist' = [hist EXCEPT !.body_evals = Bump(@, Len(LiveFrames(kont)) + 1)]
    /\ UNCHANGED <<driver, type_check, program, inputs, envs, output, prev>>
    /\ UNCHANGED <<parser, lexer>>

\* Node::Assert => eval_assert: `self.eval(condition)?` (main.rs 921)
EvalAssert ==
    /\ Evaluating("Assert")
    /\ kont' = <<[k |-> "AssertCondition", message |-> ctl.node.message]>> \o kont
    /\ ctl' = EvalOf(ctl.node.condition)
    /\ UNCHANGED <<driver, type_check, program, inputs, envs, output, hist, prev>>
    /\ UNCHANGED <<parser, lexer>>

\* Node::LetStatement: `let val = self.eval(value)?`
EvalLetStatement ==
    /\ Evaluating("LetStatement")
    /\ kont' = <<[k |-> "LetStatement", name |-> ctl.node.name]>> \o kont
    /\ ctl' = EvalOf(ctl.node.value)
    /\ UNCHANGED <<driver, type_check, program, inputs, envs, output, hist, prev>>
    /\ UNCHANGED <<parser, lexer>>

\* Node::ReturnStatement: `let val = self.eval(value)?`
EvalReturnStatement ==
    /\ Evaluating("ReturnStatement")
    /\ kont' = <<[k |-> "ReturnStatement"]>> \o kont
    /\ ctl' = EvalOf(ctl.node.value)
    /\ UNCHANGED <<driver, type_check, program, inputs, envs, output, hist, prev>>
    /\ UNCHANGED <<parser, lexer>>

\* Node::IfStatement: `let condition_value = self.eval(condition)?`
EvalIfStatement ==
    /\ Evaluating("IfStatement")
    /\ kont' = <<[k |-> "IfStatement", consequence |-> ctl.node.consequence,
                  alternative |-> ctl.node.alternative]>> \o kont
    /\ ctl' = EvalOf(ctl.node.condition)
    /\ UNCHANGED <<driver, type_check, program, inputs, envs, output, hist, prev>>
    /\ UNCHANGED <<parser, lexer>>

\* Node::ExpressionStatement(expr) => self.eval(expr)
EvalExpressionStatement ==
    /\ Evaluating("ExpressionStatement")
    /\ ctl' = EvalOf(ctl.node.expr)
    /\ UNCHANGED <<driver, type_check, program, inputs, kont, envs, output, hist, prev>>
    /\ UNCHANGED <<parser, lexer>>

\* Node::Identifier(name)
eval_identifier(env, name) ==
    LET value == get(env, name)
    IN  IF value # <<>> THEN Ok(value[1])
        ELSE Err("Identifier not found: " \o name)

EvalIdentifier ==
    /\ Evaluating("Identifier")
    /\ ctl' = Ret(eval_identifier(self_env, ctl.node.name))
    /\ UNCHANGED <<driver, type_check, program, inputs, kont, envs, output, hist, prev>>
    /\ UNCHANGED <<parser, lexer>>

\* Node::IntegerLiteral, FloatLiteral, StringLiteral, BooleanLiteral
eval_literal(node) ==
    CASE node.node = "IntegerLiteral" -> Ok(ValueInt(node.i))
      [] node.node = "FloatLiteral" -> Ok(ValueFloat(node.num, node.den))
      [] node.node = "StringLiteral" -> Ok(ValueString(node.s))
      [] node.node = "BooleanLiteral" -> Ok(ValueBool(node.b))

EvalLiteral ==
    /\ ctl.mode = "eval"
    /\ ctl.node.node \in {"IntegerLiteral", "FloatLiteral", "StringLiteral",
                          "BooleanLiteral"}
    /\ ctl' = Ret(eval_literal(ctl.node))
    /\ UNCHANGED <<driver, type_check, program, inputs, kont, envs, output, hist, prev>>
    /\ UNCHANGED <<parser, lexer>>

\* Node::PrefixExpression (main.rs 843-846) has no step: parse_expression
\* (main.rs 589-626) builds no such node, so eval never meets one.

\* Node::InfixExpression: `let left_val = self.eval(left)?`
EvalInfixExpression ==
    /\ Evaluating("InfixExpression")
    /\ kont' = <<[k |-> "InfixLeft", operator |-> ctl.node.operator,
                  right |-> ctl.node.right]>> \o kont
    /\ ctl' = EvalOf(ctl.node.left)
    /\ UNCHANGED <<driver, type_check, program, inputs, envs, output, hist, prev>>
    /\ UNCHANGED <<parser, lexer>>

\* Node::CallExpression: `let func = self.eval(function)?`
EvalCallExpression ==
    /\ Evaluating("CallExpression")
    /\ kont' = <<[k |-> "CallFunction", arguments |-> ctl.node.arguments,
                  caller_env |-> self_env]>> \o kont
    /\ ctl' = EvalOf(ctl.node.function)
    /\ UNCHANGED <<driver, type_check, program, inputs, envs, output, hist, prev>>
    /\ UNCHANGED <<parser, lexer>>

(***************************************************************************)
(* The RResult of a child comes back to the caller on top of the stack.    *)
(* A step operator gives the caller's next move: the new control register  *)
(* and the frames that replace the caller's frame (none: the caller        *)
(* returns).  `?` hands an Err to the caller's caller unchanged.           *)
(***************************************************************************)
\* eval_program with `if let Ok(v) = self.eval(statement)` in the place of
\* `?`: a failed statement is skipped
eval_program_step_swallow(frame, res) ==
    IF res.ok /\ res.value.t = "Return" THEN [ctl |-> Ret(Ok(res.value.v)), push |-> <<>>]
    ELSE IF frame.i < Len(frame.statements)
    THEN [ctl |-> EvalOf(frame.statements[frame.i + 1]),
          push |-> <<[frame EXCEPT !.i = @ + 1]>>]
    ELSE [ctl |-> Ret(Ok(IF res.ok THEN res.value ELSE ValueVoid)), push |-> <<>>]

\* eval_program's loop body after `result = self.eval(statement)?` (main.rs 863-871)
eval_program_step(frame, res) ==
    IF ~res.ok THEN [ctl |-> Ret(res), push |-> <<>>]
    ELSE IF res.value.t = "Return" THEN [ctl |-> Ret(Ok(res.value.v)), push |-> <<>>]
    ELSE IF frame.i < Len(frame.statements)
    THEN [ctl |-> EvalOf(frame.statements[frame.i + 1]),
          push |-> <<[frame EXCEPT !.i = @ + 1]>>]
    ELSE [ctl |-> Ret(Ok(res.value)), push |-> <<>>]

ProgramStatementResult ==
    /\ Returned("Program")
    /\ LET r == eval_program_step(Head(kont), ctl.res)
       IN  ctl' = r.ctl /\ kont' = r.push \o Tail(kont)
    /\ UNCHANGED <<driver, type_check, program, inputs, envs, output, hist, prev>>
    /\ UNCHANGED <<parser, lexer>>

\* eval_block_statement with eval_program's `return Ok(*value)` in the place
\* of `return Ok(result)`: a Block that unwraps the Return marker
eval_block_statement_step_unwrap(frame, res) ==
    IF ~res.ok THEN [ctl |-> Ret(res), push |-> <<>>]
    ELSE IF res.value.t = "Return" THEN [ctl |-> Ret(Ok(res.value.v)), push |-> <<>>]
    ELSE IF frame.i < Len(frame.statements)
    THEN [ctl |-> EvalOf(frame.statements[frame.i + 1]),
          push |-> <<[frame EXCEPT !.i = @ + 1]>>]
    ELSE [ctl |-> Ret(Ok(res.value)), push |-> <<>>]

\* eval_block_statement's loop body (main.rs 877-885): a Return stays wrapped
eval_block_statement_step(frame, res) ==
    IF ~res.ok THEN [ctl |-> Ret(res), push |-> <<>>]
    ELSE IF res.value.t = "Return" THEN [ctl |-> Ret(Ok(res.value)), push |-> <<>>]
    ELSE IF frame.i < Len(frame.statements)
    THEN [ctl |-> EvalOf(frame.statements[frame.i + 1]),
          push |-> <<[frame EXCEPT !.i = @ + 1]>>]
    ELSE [ctl |-> Ret(Ok(res.value)), push |-> <<>>]

BlockStatementResult ==
    /\ Returned("Block")
    /\ LET r == eval_block_statement_step(Head(kont), ctl.res)
       IN  ctl' = r.ctl /\ kont' = r.push \o Tail(kont)
    /\ UNCHANGED <<driver, type_check, program, inputs, envs, output, hist, prev>>
    /\ UNCHANGED <<parser, lexer>>

\* Variants of eval_live_block_step with one slip each, which the
\* properties below tell from the step as written: v.limit is the
\* retry_count at which the block gives up, v.restore / v.restore_ok /
\* v.restore_exhausted say whether self.env is restored before a retry, on
\* success and on giving up, v.cause whether the last error is kept in the
\* text, v.unwrap whether a Return is unwrapped on success.
LiveStepVariant(frame, res, env, v) ==
    IF res.ok
    THEN [ctl |-> Ret(Ok(IF v.unwrap /\ res.value.t = "Return" THEN res.value.v
                         ELSE res.value)),
          push |-> <<>>,
          env |-> IF v.restore_ok THEN frame.env_snapshot ELSE env,
          restored |-> v.restore_ok, retry_count |-> frame.retry_count]
    ELSE IF frame.retry_count + 1 >= v.limit
    THEN [ctl |-> Ret(Err("Live block failed after " \o ToString(3) \o " attempts"
                          \o (IF v.cause THEN ": " \o res.error ELSE ""))),
          push |-> <<>>,
          env |-> IF v.restore_exhausted THEN frame.env_snapshot ELSE env,
          restored |-> v.restore_exhausted, retry_count |-> frame.retry_count + 1]
    ELSE [ctl |-> EvalOf(frame.body),
          push |-> <<[frame EXCEPT !.retry_count = @ + 1]>>,
          env |-> IF v.restore THEN frame.env_snapshot ELSE env,
          restored |-> v.restore, retry_count |-> frame.retry_count + 1]

AsWritten ==
    [limit |-> 3, restore |-> TRUE, restore_ok |-> FALSE,
     restore_exhausted |-> FALSE, cause |-> TRUE, unwrap |-> FALSE]

\* `if retry_count > MAX_RETRIES`: one attempt too many
eval_live_block_step_one_more(frame, res, env) ==
    LiveStepVariant(frame, res, env, [AsWritten EXCEPT !.limit = 4])

\* the retry without `self.env = env_snapshot.clone()`
eval_live_block_step_no_restore(frame, res, env) ==
    LiveStepVariant(frame, res, env, [AsWritten EXCEPT !.restore = FALSE])

\* the restore moved before the `if retry_count >= MAX_RETRIES`
eval_live_block_step_restore_first(frame, res, env) ==
    LiveStepVariant(frame, res, env, [AsWritten EXCEPT !.restore_exhausted = TRUE])

\* the snapshot put back on success too
eval_live_block_step_restore_on_ok(frame, res, env) ==
    LiveStepVariant(frame, res, env, [AsWritten EXCEPT !.restore_ok = TRUE])

\* the exhaustion text without the last error
eval_live_block_step_drop_cause(frame, res, env) ==
    LiveStepVariant(frame, res, env, [AsWritten EXCEPT !.cause = FALSE])

\* a Return unwrapped by the live block, as apply_function does
eval_live_block_step_unwrap(frame, res, env) ==
    LiveStepVariant(frame, res, env, [AsWritten EXCEPT !.unwrap = TRUE])

\* eval_live_block's `match self.eval(body)` (main.rs 897-916) on the
\* interpreter's env: the next move, the env it leaves, whether it restored
\* the snapshot, and retry_count afterwards
eval_live_block_step(frame, res, env) ==
    IF res.ok
    THEN [ctl |-> Ret(Ok(res.value)), push |-> <<>>, env |-> env,
          restored |-> FALSE, retry_count |-> frame.retry_count]
    ELSE LET retry_count == frame.retry_count + 1
         IN  IF retry_count >= MAX_RETRIES
             THEN [ctl |-> Ret(Err("Live block failed after " \o ToString(MAX_RETRIES)
                                   \o " attempts: " \o res.error)),
                   push |-> <<>>, env |-> env,
                   restored |-> FALSE, retry_count |-> retry_count]
             ELSE [ctl |-> EvalOf(frame.body),
                   push |-> <<[frame EXCEPT !.retry_count = retry_count]>>,
                   env |-> frame.env_snapshot,
                   restored |-> TRUE, retry_count |-> retry_count]

\* the history kept with a live frame when its body is started again: the
\* bodies started, self.env after the first attempt and the Err of the
\* first attempt
Restarted(frame, env_of_failure, failure) ==
    [frame EXCEPT !.attempts = @ + 1,
                  !.first_env = IF @ = <<>> THEN <<env_of_failure>> ELSE @,
                  !.first_error = IF @ = <<>> THEN <<failure>> ELSE @]

\* the history of an eval_live_block that returned: its RResult, the
\* RResult of its last attempt (cause), the RResult of the live block
\* nested in it that returned last (inner), the bodies it started, self.env
\* at its call, after its first attempt and at its return
LiveExit(frame, cause, r, depth, env_of_result) ==
    [ok |-> r.ctl.res.ok, res |-> r.ctl.res, cause |-> cause, depth |-> depth,
     inner |-> IF hist.last_exit # <<>> /\ hist.last_exit[1].depth = depth + 1
               THEN <<hist.last_exit[1].res>> ELSE <<>>,
     attempts |-> frame.attempts, retry_count |-> r.retry_count,
     entry_env |-> frame.entry_env, env |-> r.env,
     first_env |-> IF frame.first_env = <<>> THEN <<env_of_result>>
                   ELSE frame.first_env]

LiveBlockResult ==
    /\ Returned("LiveBlock")
    /\ LET frame == Head(kont)
           depth == Len(LiveFrames(kont))
           r == eval_live_block_step(frame, ctl.res, self_env)
       IN  /\ ctl' = r.ctl
           /\ envs' = <<r.env>> \o Tail(envs)
           /\ kont' = (IF r.push = <<>> THEN <<>>
                       ELSE <<Restarted(r.push[1], self_env, ctl.res)>>) \o Tail(kont)
           /\ hist' = [hist EXCEPT
                         !.body_evals = IF r.push = <<>> THEN @ ELSE Bump(@, depth),
                         !.restores = IF r.restored THEN @ + 1 ELSE @,
                         !.last_exit = IF r.push = <<>>
                                       THEN <<LiveExit(frame, ctl.res, r, depth, self_env)>>
                                       ELSE @]
    /\ UNCHANGED <<driver, type_check, program, inputs, output, prev>>
    /\ UNCHANGED <<parser, lexer>>

\* the error text without the condition's value
formatted_error_no_condition(error_message, condition_value) ==
    "ASSERTION ERROR: " \o error_message

\* the error text of eval_assert (main.rs 934-935)
formatted_error(error_message, condition_value) ==
    "ASSERTION ERROR: " \o error_message \o "\n  - Condition evaluated to: "
    \o Display(condition_value)

\* eval_assert after `let condition_value = self.eval(condition)?` (main.rs 921-931)
eval_assert_condition_step(frame, res) ==
    IF ~res.ok THEN [ctl |-> Ret(res), push |-> <<>>]
    ELSE IF is_truthy(res.value) THEN [ctl |-> Ret(Ok(ValueVoid)), push |-> <<>>]
    ELSE IF frame.message # <<>>
    THEN [ctl |-> EvalOf(frame.message[1]),
          push |-> <<[k |-> "AssertMessage", condition_value |-> res.value]>>]
    ELSE [ctl |-> Ret(Err(formatted_error("Assertion failed", res.value))),
          push |-> <<>>]

AssertConditionResult ==
    /\ Returned("AssertCondition")
    /\ LET r == eval_assert_condition_step(Head(kont), ctl.res)
       IN  ctl' = r.ctl /\ kont' = r.push \o Tail(kont)
    /\ UNCHANGED <<driver, type_check, program, inputs, envs, output, hist, prev>>
    /\ UNCHANGED <<parser, lexer>>

\* eval_assert after `match self.eval(msg)?` (main.rs 925-937)
eval_assert_message_step(frame, res) ==
    IF ~res.ok THEN Ret(res)
    ELSE LET error_message ==
                 IF res.value.t = "String" THEN res.value.s
                 ELSE "Assertion failed with message: " \o Display(res.value)
         IN  Ret(Err(formatted_error(error_message, frame.condition_value)))

AssertMessageResult ==
    /\ Returned("AssertMessage")
    /\ ctl' = eval_assert_message_step(Head(kont), ctl.res)
    /\ kont' = Tail(kont)
    /\ UNCHANGED <<driver, type_check, program, inputs, envs, output, hist, prev>>
    /\ UNCHANGED <<parser, lexer>>

\* LetStatement after `self.eval(value)?`: bind in the innermost store
LetStatementResult ==
    /\ Returned("LetStatement")
    /\ IF ctl.res.ok
       THEN /\ envs' = <<set(self_env, Head(kont).name, ctl.res.value)>> \o Tail(envs)
            /\ ctl' = Ret(Ok(ValueVoid))
       ELSE UNCHANGED <<envs, ctl>>
    /\ kont' = Tail(kont)
    /\ UNCHANGED <<driver, type_check, program, inputs, output, hist, prev>>
    /\ UNCHANGED <<parser, lexer>>

\* ReturnStatement after `self.eval(value)?`: wrap the value
ReturnStatementResult ==
    /\ Returned("ReturnStatement")
    /\ ctl' = IF ctl.res.ok THEN Ret(Ok(ValueReturn(ctl.res.value))) ELSE ctl
    /\ kont' = Tail(kont)
    /\ UNCHANGED <<driver, type_check, program, inputs, envs, output, hist, prev>>
    /\ UNCHANGED <<parser, lexer>>

\* IfStatement after `self.eval(condition)?` (main.rs 824-830)
eval_if_step(frame, res) ==
    IF ~res.ok THEN Ret(res)
    ELSE IF is_truthy(res.value) THEN EvalOf(frame.consequence)
    ELSE IF frame.alternative # <<>> THEN EvalOf(frame.alternative[1])
    ELSE Ret(Ok(ValueVoid))

IfConditionResult ==
    /\ Returned("IfStatement")
    /\ ctl' = eval_if_step(Head(kont), ctl.res)
    /\ kont' = Tail(kont)
    /\ UNCHANGED <<driver, type_check, program, inputs, envs, output, hist, prev>>
    /\ UNCHANGED <<parser, lexer>>

\* InfixExpression after `self.eval(left)?`: `let right_val = self.eval(right)?`
InfixLeftResult ==
    /\ Returned("InfixLeft")
    /\ IF ctl.res.ok
       THEN /\ ctl' = EvalOf(Head(kont).right)
            /\ kont' = <<[k |-> "InfixRight", operator |-> Head(kont).operator,
                          left_val |-> ctl.res.value]>> \o Tail(kont)
       ELSE ctl' = ctl /\ kont' = Tail(kont)
    /\ UNCHANGED <<driver, type_check, program, inputs, envs, output, hist, prev>>
    /\ UNCHANGED <<parser, lexer>>

\* InfixExpression after `self.eval(right)?`: eval_infix_expression, whose
\* outcome is an RResult or a panic that ends the process
InfixRightResult ==
    /\ Returned("InfixRight")
    /\ IF ctl.res.ok
       THEN \E outcome \in eval_infix_expression(Head(kont).operator,
                                                 Head(kont).left_val, ctl.res.value) :
                ctl' = IF IsPanic(outcome) THEN Abort(outcome.panic) ELSE Ret(outcome)
       ELSE ctl' = ctl
    /\ kont' = Tail(kont)
    /\ UNCHANGED <<driver, type_check, program, inputs, envs, output, hist, prev>>
    /\ UNCHANGED <<parser, lexer>>

(***************************************************************************)
(* Calls (main.rs 852-856, 1045-1078).                                     *)
(***************************************************************************)
\* the parameter loop of apply_function (main.rs 1061-1065): a parameter
\* past the last argument stays unbound
RECURSIVE bind_parameters(_, _, _, _)
bind_parameters(parameters, args, i, extended_env) ==
    IF i > Len(parameters) THEN extended_env
    ELSE bind_parameters(parameters, args, i + 1,
                         IF i <= Len(args)
                         THEN set(extended_env, parameters[i][2], args[i])
                         ELSE extended_env)

\* apply_function with the body's environment enclosed in the caller's
\* self.env in the place of the captured one
apply_function_call_site(func, args) ==
    IF func.t = "Function"
    THEN [ctl |-> EvalOf(func.body), push |-> <<[k |-> "ApplyFunction"]>>,
          spawn |-> <<bind_parameters(func.parameters, args, 1,
                                      new_enclosed(self_env))>>]
    ELSE [ctl |-> Ret(Err("Not a function: " \o Display(func))), push |-> <<>>,
          spawn |-> <<>>]

\* apply_function with the argument count tested against the parameters
apply_function_arity_checked(func, args) ==
    IF func.t = "Function" /\ Len(args) # Len(func.parameters)
    THEN [ctl |-> Ret(Err("Expected " \o ToString(Len(func.parameters))
                          \o " arguments, got " \o ToString(Len(args)))),
          push |-> <<>>, spawn |-> <<>>]
    ELSE IF func.t = "Function"
    THEN [ctl |-> EvalOf(func.body), push |-> <<[k |-> "ApplyFunction"]>>,
          spawn |-> <<bind_parameters(func.parameters, args, 1,
                                      new_enclosed(func.env))>>]
    ELSE [ctl |-> Ret(Err("Not a function: " \o Display(func))), push |-> <<>>,
          spawn |-> <<>>]

\* apply_function up to `interpreter.eval(&body)`: the callee's frame and
\* the env of the Interpreter made for the body, or the Err of a non-function
apply_function(func, args) ==
    IF func.t = "Function"
    THEN [ctl |-> EvalOf(func.body), push |-> <<[k |-> "ApplyFunction"]>>,
          spawn |-> <<bind_parameters(func.parameters, args, 1,
                                      new_enclosed(func.env))>>]
    ELSE [ctl |-> Ret(Err("Not a function: " \o Display(func))), push |-> <<>>,
          spawn |-> <<>>]

\* history kept with the frames of a call: caller_env is self.env of the
\* caller when the evaluation of the CallExpression began
CalledFrom(push, caller_env) ==
    [i \in DOMAIN push |-> push[i] @@ [caller_env |-> caller_env]]

\* CallExpression after `self.eval(function)?`: eval_expressions(arguments)
\* starts, or with no argument apply_function(func, args) at once
CallFunctionResult ==
    /\ Returned("CallFunction")
    /\ LET arguments == Head(kont).arguments
           r == apply_function(ctl.res.value, <<>>)
       IN  IF ~ctl.res.ok
           THEN ctl' = ctl /\ kont' = Tail(kont) /\ envs' = envs
           ELSE IF arguments # <<>>
           THEN /\ ctl' = EvalOf(arguments[1])
                /\ kont' = <<[k |-> "CallArguments", func |-> ctl.res.value,
                              arguments |-> arguments, result |-> <<>>,
                              caller_env |-> Head(kont).caller_env]>> \o Tail(kont)
                /\ envs' = envs
           ELSE /\ ctl' = r.ctl /\ envs' = r.spawn \o envs
                /\ kont' = CalledFrom(r.push, Head(kont).caller_env) \o Tail(kont)
    /\ UNCHANGED <<driver, type_check, program, inputs, output, hist, prev>>
    /\ UNCHANGED <<parser, lexer>>

\* eval_expressions after `self.eval(expr)?` (main.rs 1048-1051), and after
\* the last argument apply_function(func, args)
CallArgumentResult ==
    /\ Returned("CallArguments")
    /\ LET frame == Head(kont)
           result == Append(frame.result, ctl.res.value)
           r == apply_function(frame.func, result)
       IN  IF ~ctl.res.ok
           THEN ctl' = ctl /\ kont' = Tail(kont) /\ envs' = envs
           ELSE IF Len(result) < Len(frame.arguments)
           THEN /\ ctl' = EvalOf(frame.arguments[Len(result) + 1])
                /\ kont' = <<[frame EXCEPT !.result = result]>> \o Tail(kont)
                /\ envs' = envs
           ELSE /\ ctl' = r.ctl /\ envs' = r.spawn \o envs
                /\ kont' = CalledFrom(r.push, Head(kont).caller_env) \o Tail(kont)
    /\ UNCHANGED <<driver, type_check, program, inputs, output, hist, prev>>
    /\ UNCHANGED <<parser, lexer>>

\* apply_function that ends with `interpreter.eval(&body)`: the RResult of
\* the body as it is
apply_function_result_as_it_is(res) == res

\* apply_function after `interpreter.eval(&body)?` (main.rs 1068-1074): only
\* here a Return is unwrapped
apply_function_result(res) ==
    IF ~res.ok THEN res
    ELSE IF res.value.t = "Return" THEN Ok(res.value.v)
    ELSE Ok(res.value)

\* a call whose body ran on the caller's Interpreter, `self.env` extended
\* with the parameters: what the body bound stays with the caller
ApplyFunctionResult_on_self ==
    /\ Returned("ApplyFunction")
    /\ ctl' = Ret(apply_function_result(ctl.res))
    /\ kont' = Tail(kont)
    /\ envs' = <<[envs[2] EXCEPT !.store =
                     [n \in (DOMAIN envs[2].store) \cup (DOMAIN envs[1].store) |->
                         IF n \in DOMAIN envs[1].store THEN envs[1].store[n]
                         ELSE envs[2].store[n]]]>> \o Tail(Tail(envs))
    /\ UNCHANGED <<driver, type_check, program, inputs, output, hist, prev>>
    /\ UNCHANGED <<parser, lexer>>

\* the callee's Interpreter is dropped with its env
ApplyFunctionResult ==
    /\ Returned("ApplyFunction")
    /\ ctl' = Ret(apply_function_result(ctl.res))
    /\ kont' = Tail(kont)
    /\ envs' = Tail(envs)
    /\ UNCHANGED <<driver, type_check, program, inputs, output, hist, prev>>
    /\ UNCHANGED <<parser, lexer>>

(***************************************************************************)
(* The programs handed to the drivers, as the parser's Node values.        *)
(***************************************************************************)
Num(i) == IntegerLiteral(i)

Str(x) == StringLiteral(x)

Var(name) == Identifier(name)

Let(name, value) == LetStatement(name, value)

Infix(left, operator, right) == InfixExpression(left, operator, right)

Expr(e) == ExpressionStatement(e)

\* a program around a block: `prefix live { body } suffix`, and the same
\* with `if true { body }`, which is self.eval(body) and no more (main.rs
\* 822-827), in the place of the live block
WithLive(c) == Program(c.prefix \o <<LiveBlock(c.body)>> \o c.suffix)

Direct(c) ==
    Program(c.prefix \o <<IfStatement(BooleanLiteral(TRUE), c.body, <<>>)>> \o c.suffix)

LiveCase(prefix, body, suffix) == [prefix |-> prefix, body |-> body, suffix |-> suffix]

\* { assert(false, "x"); }
BodyAssertFalse == Block(<<AssertNode(BooleanLiteral(FALSE), <<Str("x")>>)>>)

\* let n = 0; { let n = n + 1; let m = 7; assert(n > 5, "no"); }
CaseCounter ==
    LiveCase(<<Let("n", Num(0))>>,
         Block(<<Let("n", Infix(Var("n"), "+", Num(1))), Let("m", Num(7)),
                 AssertNode(Infix(Var("n"), ">", Num(5)), <<Str("no")>>)>>),
         <<>>)

\* let a = 1; { let b = a + 1; b }
CaseLet ==
    LiveCase(<<Let("a", Num(1))>>,
         Block(<<Let("b", Infix(Var("a"), "+", Num(1))), Expr(Var("b"))>>),
         <<>>)

\* { return 5; } let z = 1;
CaseReturn ==
    LiveCase(<<>>, Block(<<ReturnStatement(Num(5))>>), <<Let("z", Num(1))>>)

\* let a = 2.5; { let a = a * 2; if a > 4 { let c = "s" + "t"; } else { let c = 0 - a; } c } a
CaseIf ==
    LiveCase(<<Let("a", FloatLiteral(5, 2))>>,
         Block(<<Let("a", Infix(Var("a"), "*", Num(2))),
                 IfStatement(Infix(Var("a"), ">", Num(4)),
                             Block(<<Let("c", Infix(Str("s"), "+", Str("t")))>>),
                             <<Block(<<Let("c", Infix(Num(0), "-", Var("a")))>>)>>),
                 Expr(Var("c"))>>),
         <<Expr(Var("a"))>>)

\* let a = 1; { let a = 2; } a
CaseShadow ==
    LiveCase(<<Let("a", Num(1))>>, Block(<<Let("a", Num(2))>>), <<Expr(Var("a"))>>)

\* { { assert(false, "x"); } } : with WithLive, a live block in a live block
CaseNested == LiveCase(<<>>, Block(<<LiveBlock(BodyAssertFalse)>>), <<>>)

\* fn divide_safely(int a, int b) { live { assert(b != 0, "zero"); return a / b; } }
\* (test_parser.rs 28-33)
FnDivideSafely ==
    Function("divide_safely", <<<<"int", "a">>, <<"int", "b">>>>,
             Block(<<LiveBlock(Block(<<
                 AssertNode(Infix(Var("b"), "!=", Num(0)), <<Str("zero")>>),
                 ReturnStatement(Infix(Var("a"), "/", Var("b")))>>))>>))

\* ... { let result = divide_safely(100, d); } (test_parser.rs 101-105)
CaseCall(d) ==
    LiveCase(<<FnDivideSafely>>,
         Block(<<Let("result", CallExpression(Var("divide_safely"), <<Num(100), Num(d)>>))>>),
         <<>>)

\* fn f(int a) { live { if a > 0 { return a; } } let q = 1 / a; q }  let r = f(d);  let s = r();
ProgReturnInFn(d) ==
    Program(<<Function("f", <<<<"int", "a">>>>,
                  Block(<<LiveBlock(Block(<<
                              IfStatement(Infix(Var("a"), ">", Num(0)),
                                          Block(<<ReturnStatement(Var("a"))>>), <<>>)>>)),
                          Let("q", Infix(Num(1), "/", Var("a"))),
                          Expr(Var("q"))>>)),
              Let("r", CallExpression(Var("f"), <<Num(d)>>)),
              Let("s", CallExpression(Var("r"), <<>>))>>)

\* fn f(int d) { return <name>; }
FnReads(name) ==
    Function("f", <<<<"int", "d">>>>, Block(<<ReturnStatement(Var(name))>>))

\* fn g(int <name>) { return f(0); }
FnCallsF(name) ==
    Function("g", <<<<"int", name>>>>,
             Block(<<ReturnStatement(CallExpression(Var("f"), <<Num(0)>>))>>))

\* let x = 1; fn f(int d) { return x; } fn g(int x) { return f(0); } let r = g(5);
ProgBothSites ==
    Program(<<Let("x", Num(1)), FnReads("x"), FnCallsF("x"),
              Let("r", CallExpression(Var("g"), <<Num(5)>>))>>)

\* fn f(int d) { return y; } fn g(int y) { return f(0); } let r = g(5);
ProgCallSiteOnly ==
    Program(<<FnReads("y"), FnCallsF("y"),
              Let("r", CallExpression(Var("g"), <<Num(5)>>))>>)

\* let x = 1; fn f(int d) { return x; } let x = 2; let r = f(0);
ProgRebound ==
    Program(<<Let("x", Num(1)), FnReads("x"), Let("x", Num(2)),
              Let("r", CallExpression(Var("f"), <<Num(0)>>))>>)

ScopePrograms == {ProgBothSites, ProgCallSiteOnly, ProgRebound}

\* fn f(int a, int b) { return <name>; }
FnTwoParameters(name) ==
    Function("f", <<<<"int", "a">>, <<"int", "b">>>>,
             Block(<<ReturnStatement(Var(name))>>))

\* fn f(int a, int b) { return <name>; } let r = f(1);
ProgMissingArgument(name) ==
    Program(<<FnTwoParameters(name),
              Let("r", CallExpression(Var("f"), <<Num(1)>>))>>)

\* let b = 9; fn f(int a, int b) { return b; } let r = f(1);
ProgMissingArgumentOuter ==
    Program(<<Let("b", Num(9)), FnTwoParameters("b"),
              Let("r", CallExpression(Var("f"), <<Num(1)>>))>>)

ArityPrograms ==
    {ProgMissingArgument("a"), ProgMissingArgument("b"), ProgMissingArgumentOuter}

\* let a = 1; assert(a == 2, "bad"); let b = 2;
ProgFailOutside ==
    Program(<<Let("a", Num(1)),
              AssertNode(Infix(Var("a"), "==", Num(2)), <<Str("bad")>>),
              Let("b", Num(2))>>)

\* let k = 1; if k { let j = 2; } : runs, and the type checker rejects it
ProgIllTyped ==
    Program(<<Let("k", Num(1)),
              IfStatement(Var("k"), Block(<<Let("j", Num(2))>>), <<>>)>>)

\* a; n
ProgRead == Program(<<Expr(Var("a")), Expr(Var("n"))>>)

\* the conditions and the messages of the assert programs
AssertConditions ==
    {BooleanLiteral(TRUE), BooleanLiteral(FALSE), Num(0), Num(2),
     FloatLiteral(0, 1), FloatLiteral(1, 2), Str(""), Str("s")}

AssertMessages == {<<>>, <<Str("m")>>, <<Num(7)>>, <<Var("nope")>>}

\* assert(condition) and assert(condition, message)
ProgAssert(condition, message) == Program(<<AssertNode(condition, message)>>)

AssertPrograms ==
    {ProgAssert(c, m) : c \in AssertConditions, m \in AssertMessages}

Cases ==
    {LiveCase(<<>>, BodyAssertFalse, <<>>), CaseCounter, CaseLet, CaseReturn, CaseIf,
     CaseShadow, CaseNested, CaseCall(0), CaseCall(4)}

FilePrograms ==
    {WithLive(c) : c \in Cases} \cup {Direct(c) : c \in Cases}
    \cup {ProgReturnInFn(0), ProgReturnInFn(7), ProgFailOutside, ProgIllTyped}
    \cup ScopePrograms \cup ArityPrograms
    \cup AssertPrograms

ReplPrograms ==
    {WithLive(CaseCounter), WithLive(CaseLet), Program(<<FnDivideSafely>>),
     Program(<<Expr(CallExpression(Var("divide_safely"), <<Num(1), Var("n")>>))>>),
     ProgFailOutside, ProgIllTyped, ProgRead}

(***************************************************************************)
(* The drivers: execute_file (main.rs 1231-1255) and the loop of           *)
(* start_repl (main.rs 1179-1205; EnhancedREPL::process_input,             *)
(* repl.rs 162-183, is the same code on self.interpreter).                 *)
(***************************************************************************)
\* the type error printed, and the program run all the same (no `continue`,
\* no `return`)
type_check_gate_ignored(enabled, p) == <<>>

\* `if type_check { match check_program(&program) { Err(e) => ... } }`: the
\* type error that stops the driver, if any (a sequence of length 0 or 1)
type_check_gate(enabled, p) ==
    IF enabled /\ ~check_program(p).ok THEN <<check_program(p).error>> ELSE <<>>

\* what a file run leaves for the one after it
Summary == [program |-> program, type_check |-> type_check, output |-> output,
            hist |-> hist]

\* execute_file(filename, type_check) up to the call of interpreter.eval:
\* a fresh Interpreter, made only after the type check
ExecuteFileOn(programs) ==
    /\ driver = "file" /\ ctl.mode = "idle" /\ inputs < MaxInputs
    /\ \E p \in programs, tc \in BOOLEAN :
          LET gate == type_check_gate(tc, p)
          IN  /\ program' = p
              /\ type_check' = tc
              /\ IF gate # <<>>
                 THEN /\ output' = [kind |-> "error",
                                    error |-> "Type check failed: " \o gate[1]]
                      /\ ctl' = Idle
                      /\ envs' = envs
                 ELSE /\ output' = NoOutput
                      /\ ctl' = EvalOf(p)
                      /\ envs' = <<Environment_new>>
    /\ inputs' = inputs + 1
    /\ kont' = <<>>
    /\ hist' = HistInit
    /\ prev' = IF inputs = 0 THEN NoPrev ELSE <<Summary>>
    /\ UNCHANGED driver
    /\ UNCHANGED <<parser, lexer>>

ExecuteFile == ExecuteFileOn(FilePrograms)

\* `interpreter.eval(&program)?; Ok(())`: the value is dropped, an Err is
\* execute_file's own; the Interpreter goes out of scope
ExecuteFileReturn ==
    /\ driver = "file" /\ ctl.mode = "ret" /\ kont = <<>>
    /\ output' = IF ctl.res.ok THEN [kind |-> "ok"]
                 ELSE [kind |-> "error", error |-> ctl.res.error]
    /\ hist' = [hist EXCEPT !.final = <<[res |-> ctl.res, env |-> self_env]>>]
    /\ ctl' = Idle
    /\ envs' = <<>>
    /\ UNCHANGED <<driver, type_check, program, inputs, kont, prev>>
    /\ UNCHANGED <<parser, lexer>>

\* one line of code read by the REPL, up to interpreter.eval(&program) on
\* the REPL's one Interpreter; `continue` on a type error
ReplInputOn(programs) ==
    /\ driver = "repl" /\ ctl.mode = "idle" /\ inputs < MaxInputs
    /\ \E p \in programs :
          LET gate == type_check_gate(type_check, p)
          IN  /\ program' = p
              /\ IF gate # <<>>
                 THEN /\ output' = [kind |-> "type_error", error |-> gate[1]]
                      /\ ctl' = Idle
                 ELSE /\ output' = NoOutput
                      /\ ctl' = EvalOf(p)
    /\ inputs' = inputs + 1
    /\ kont' = <<>>
    /\ hist' = HistInit
    /\ UNCHANGED <<driver, type_check, envs, prev>>
    /\ UNCHANGED <<parser, lexer>>

ReplInput == ReplInputOn(ReplPrograms)

\* the REPL with `interpreter = Interpreter::new()` in the Err arm: a failed
\* input leaves nothing behind
ReplResult_new_interpreter ==
    /\ driver = "repl" /\ ctl.mode = "ret" /\ kont = <<>>
    /\ output' = IF ~ctl.res.ok THEN [kind |-> "error", error |-> ctl.res.error]
                 ELSE IF ctl.res.value.t = "Void" THEN [kind |-> "ok"]
                 ELSE [kind |-> "value", text |-> Display(ctl.res.value)]
    /\ hist' = [hist EXCEPT !.final = <<[res |-> ctl.res, env |-> self_env]>>]
    /\ ctl' = Idle
    /\ envs' = IF ctl.res.ok THEN envs ELSE <<Environment_new>>
    /\ UNCHANGED <<driver, type_check, program, inputs, kont, prev>>
    /\ UNCHANGED <<parser, lexer>>

\* `match interpreter.eval(&program)`: print the value unless Void, or the error
ReplResult ==
    /\ driver = "repl" /\ ctl.mode = "ret" /\ kont = <<>>
    /\ output' = IF ~ctl.res.ok THEN [kind |-> "error", error |-> ctl.res.error]
                 ELSE IF ctl.res.value.t = "Void" THEN [kind |-> "ok"]
                 ELSE [kind |-> "value", text |-> Display(ctl.res.value)]
    /\ hist' = [hist EXCEPT !.final = <<[res |-> ctl.res, env |-> self_env]>>]
    /\ ctl' = Idle
    /\ UNCHANGED <<driver, type_check, program, inputs, kont, envs, prev>>
    /\ UNCHANGED <<parser, lexer>>

\* the REPL command "typecheck"
ReplTypecheckCommand ==
    /\ driver = "repl" /\ ctl.mode = "idle"
    /\ type_check' = ~type_check
    /\ UNCHANGED <<driver, program, inputs, ctl, kont, envs, output, hist, prev>>
    /\ UNCHANGED <<parser, lexer>>

\* main: a file name was given, or not; Interpreter::new() for the REPL
Init ==
    /\ driver \in {"file", "repl"}
    /\ type_check = FALSE
    /\ program = Program(<<>>)
    /\ inputs = 0
    /\ ctl = Idle
    /\ kont = <<>>
    /\ envs = IF driver = "repl" THEN <<Environment_new>> ELSE <<>>
    /\ output = NoOutput
    /\ hist = HistInit
    /\ prev = NoPrev
    /\ parser = NoParser
    /\ lexer = NoLexer

Next ==
    \/ ExecuteFile
    \/ ExecuteFileReturn
    \/ ReplInput
    \/ ReplResult
    \/ ReplTypecheckCommand
    \/ EvalProgram
    \/ EvalBlock
    \/ EvalFunction
    \/ EvalLiveBlock
    \/ EvalAssert
    \/ EvalLetStatement
    \/ EvalReturnStatement
    \/ EvalIfStatement
    \/ EvalExpressionStatement
    \/ EvalIdentifier
    \/ EvalLiteral
    \/ EvalInfixExpression
    \/ EvalCallExpression
    \/ ProgramStatementResult
    \/ BlockStatementResult
    \/ LiveBlockResult
    \/ AssertConditionResult
    \/ AssertMessageResult
    \/ LetStatementResult
    \/ ReturnStatementResult
    \/ IfConditionResult
    \/ InfixLeftResult
    \/ InfixRightResult
    \/ CallFunctionResult
    \/ CallArgumentResult
    \/ ApplyFunctionResult

Spec == Init /\ [][Next]_vars

(***************************************************************************)
(* The type checker on its own: execute_file on programs that only declare *)
(* functions, whose bodies hold an if or a call over parameters of every   *)
(* combination of types.  A parameter with the empty type name has type    *)
(* Any (typechecker.rs 336).                                               *)
(***************************************************************************)
ConditionTypeNames == {"bool", "int", ""}

ValueTypeNames == {"int", "string", ""}

\* fn g(c x, t y, e z) { if x { y } else { z } }
ProgIfTyped(c, t, e) ==
    Program(<<Function("g", <<<<c, "x">>, <<t, "y">>, <<e, "z">>>>,
                       Block(<<IfStatement(Var("x"), Block(<<Expr(Var("y"))>>),
                                           <<Block(<<Expr(Var("z"))>>)>>)>>))>>)

IfPrograms ==
    {ProgIfTyped(c, t, e) : c \in ConditionTypeNames, t \in ValueTypeNames,
                            e \in ValueTypeNames}

\* n times the argument a
ArgumentsA(n) == [i \in 1..n |-> Var("a")]

\* fn f(p_type p) { return p; } fn g(a_type a) { f(a, ..); }, with n arguments
ProgCallTyped(p_type, a_type, n) ==
    Program(<<Function("f", <<<<p_type, "p">>>>, Block(<<ReturnStatement(Var("p"))>>)),
              Function("g", <<<<a_type, "a">>>>,
                       Block(<<Expr(CallExpression(Var("f"), ArgumentsA(n)))>>))>>)

MaxArguments == 2

CallPrograms ==
    {ProgCallTyped(p_type, a_type, n) : p_type \in ValueTypeNames,
                                        a_type \in ValueTypeNames, n \in 0..MaxArguments}

\* fn g(f_type f, a_type a) { f(a, ..); }, with n arguments: a call of a parameter
ProgCallParameter(f_type, a_type, n) ==
    Program(<<Function("g", <<<<f_type, "f">>, <<a_type, "a">>>>,
                       Block(<<Expr(CallExpression(Var("f"), ArgumentsA(n)))>>))>>)

ParameterCallPrograms ==
    {ProgCallParameter(f_type, a_type, n) : f_type \in {"", "int"},
                                            a_type \in ValueTypeNames, n \in 0..MaxArguments}

TypedPrograms == IfPrograms \cup CallPrograms \cup ParameterCallPrograms

ExecuteFileTyped == ExecuteFileOn(TypedPrograms)

InitCheck == Init /\ driver = "file"

NextCheck ==
    \/ ExecuteFileTyped
    \/ ExecuteFileReturn
    \/ EvalProgram
    \/ EvalFunction
    \/ ProgramStatementResult

SpecCheck == InitCheck /\ [][NextCheck]_vars

(***************************************************************************)
(* eval_infix_expression on its own: the REPL evaluating the line `a op b` *)
(* in an environment that earlier lines left, for every operator the       *)
(* parser has and operands of every kind of value.                         *)
(***************************************************************************)
\* the operators of parse_infix_expression (main.rs 629-641)
Operators == {"+", "-", "*", "/", "==", "!=", "<", ">", "<=", ">="}

IntOperands == {ValueInt(i) : i \in {MinInt, -1, 0, 1, 2, MaxInt}}

FloatOperands == {ValueFloat(0, 1), ValueFloat(1, 2), ValueFloat(-3, 2), ValueFloat(2, 1)}

Operands ==
    IntOperands \cup FloatOperands \cup {ValueString(""), ValueString("s")}
        \cup {ValueBool(TRUE), ValueBool(FALSE)}

\* a op b
ProgInfix(operator) == Program(<<Expr(Infix(Var("a"), operator, Var("b")))>>)

\* the state ReplInput leaves for the line `a op b`
InitInfix ==
    /\ driver = "repl"
    /\ type_check = FALSE
    /\ \E operator \in Operators : program = ProgInfix(operator)
    /\ inputs = 1
    /\ ctl = EvalOf(program)
    /\ kont = <<>>
    /\ \E left \in Operands, right \in Operands :
          envs = <<set(set(Environment_new, "a", left), "b", right)>>
    /\ output = NoOutput
    /\ hist = HistInit
    /\ prev = NoPrev
    /\ parser = NoParser
    /\ lexer = NoLexer

NextInfix ==
    \/ EvalProgram
    \/ EvalExpressionStatement
    \/ EvalInfixExpression
    \/ EvalIdentifier
    \/ InfixLeftResult
    \/ InfixRightResult
    \/ ProgramStatementResult
    \/ ReplResult

SpecInfix == InitInfix /\ [][NextInfix]_vars

(***************************************************************************)
(* The parser with error recovery (parser.rs).  A Parser is the token      *)
(* stream of its lexer, the position of current_token in it (peek_token is *)
(* the token after it) and the errors so far.  A ParseError is its message *)
(* and token; line and column, which next_token only approximates, are     *)
(* left out.  The sources below have no return, live, assert or if, no     *)
(* operators and no literals but integers: the arms for them are left out. *)
(***************************************************************************)
Tok(t) == [t |-> t]

TIdentifier(name) == [t |-> "Identifier", name |-> name]

TIntLiteral(value) == [t |-> "IntLiteral", value |-> value]

Eof == Tok("Eof")

\* {:?} of a Token
TokenDebug(token) ==
    CASE token.t = "Identifier" -> "Identifier(\"" \o token.name \o "\")"
      [] token.t = "IntLiteral" -> "IntLiteral(" \o ToString(token.value) \o ")"
      [] OTHER -> token.t

ParseError(message, token) == [message |-> message, token |-> token]

\* Parser::new (parser.rs 31-44)
Parser_new(tokens) == [tokens |-> tokens, position |-> 1, errors |-> <<>>]

current_token(p) == IF p.position <= Len(p.tokens) THEN p.tokens[p.position] ELSE Eof

peek_token(p) == IF p.position + 1 <= Len(p.tokens) THEN p.tokens[p.position + 1] ELSE Eof

\* Parser::next_token (parser.rs 46-70); the lexer gives Eof for ever at the end
next_token(p) == [p EXCEPT !.position = IF @ > Len(p.tokens) THEN @ ELSE @ + 1]

\* self.errors.push(ParseError { message, token, .. })
push_error(p, error) == [p EXCEPT !.errors = Append(@, error)]

\* the ParseError the parse functions build at the current token
ErrorHere(p, message) == ParseError(message \o TokenDebug(current_token(p)), current_token(p))

\* the tokens at which synchronize stops without consuming them
StatementKeywords == {"Function", "Let", "Return", "Live", "Assert", "If"}

\* the loop of synchronize (parser.rs 103-118)
RECURSIVE synchronize_loop(_)
synchronize_loop(p) ==
    IF current_token(p).t = "Eof" THEN p
    ELSE IF current_token(p).t = "Semicolon" THEN next_token(p)
    ELSE IF current_token(p).t \in StatementKeywords THEN p
    ELSE synchronize_loop(next_token(p))

\* Parser::synchronize (parser.rs 100-119)
synchronize(p) == synchronize_loop(next_token(p))

\* Parser::peek_precedence (parser.rs 752-761), without the operators
peek_precedence(p) == IF peek_token(p).t = "LeftParen" THEN 6 ELSE 0

RECURSIVE parse_expression(_, _)
RECURSIVE parse_expression_loop(_, _, _)
RECURSIVE parse_call_arguments_loop(_, _)
RECURSIVE parse_statement(_)
RECURSIVE parse_block_statement_loop(_, _)

\* the `while self.peek_token == Token::Comma` loop of parse_call_arguments
\* and what follows it (parser.rs 707-739): Option<Vec<Node>> as [ok, args]
parse_call_arguments_loop(p, args) ==
    IF peek_token(p).t = "Comma"
    THEN LET r == parse_expression(next_token(next_token(p)), 0)
         IN  IF r.expr = <<>>
             THEN [p |-> push_error(r.p, ParseError(
                            "Expected expression after comma in function arguments",
                            current_token(r.p))),
                   ok |-> FALSE, args |-> <<>>]
             ELSE parse_call_arguments_loop(r.p, Append(args, r.expr[1]))
    ELSE IF peek_token(p).t # "RightParen"
    THEN [p |-> push_error(p, ParseError("Expected ')' after arguments, found "
                                         \o TokenDebug(peek_token(p)), peek_token(p))),
          ok |-> FALSE, args |-> <<>>]
    ELSE [p |-> next_token(p), ok |-> TRUE, args |-> args]

\* Parser::parse_call_arguments (parser.rs 685-739)
parse_call_arguments(p) ==
    IF peek_token(p).t = "RightParen"
    THEN [p |-> next_token(p), ok |-> TRUE, args |-> <<>>]
    ELSE LET r == parse_expression(next_token(p), 0)
         IN  IF r.expr = <<>>
             THEN [p |-> push_error(r.p, ParseError(
                            "Expected expression in function arguments",
                            current_token(r.p))),
                   ok |-> FALSE, args |-> <<>>]
             ELSE parse_call_arguments_loop(r.p, <<r.expr[1]>>)

\* Parser::parse_call_expression (parser.rs 676-683): Option<Node> as a
\* sequence of length 0 or 1
parse_call_expression(p, function) ==
    LET a == parse_call_arguments(p)
    IN  [p |-> a.p,
         expr |-> IF a.ok THEN <<CallExpression(function, a.args)>> ELSE <<>>]

\* the `while` loop of parse_expression (parser.rs 609-627)
parse_expression_loop(p, left_expr, precedence) ==
    IF peek_token(p).t # "Semicolon" /\ precedence < peek_precedence(p)
    THEN IF peek_token(p).t = "LeftParen"
         THEN LET r == parse_call_expression(next_token(p), left_expr)
              IN  IF r.expr = <<>> THEN r
                  ELSE parse_expression_loop(r.p, r.expr[1], precedence)
         ELSE [p |-> p, expr |-> <<left_expr>>]
    ELSE [p |-> p, expr |-> <<left_expr>>]

\* Parser::parse_expression (parser.rs 567-628)
parse_expression(p, precedence) ==
    LET token == current_token(p)
        prefix ==
            CASE token.t = "Identifier" ->
                    [p |-> p, expr |-> <<Identifier(token.name)>>, returned |-> FALSE]
              [] token.t = "IntLiteral" ->
                    [p |-> p, expr |-> <<IntegerLiteral(token.value)>>, returned |-> FALSE]
              [] token.t = "LeftParen" ->
                    LET inner == parse_expression(next_token(p), 0)
                    IN  IF current_token(inner.p).t # "RightParen"
                        THEN [p |-> push_error(inner.p, ErrorHere(inner.p,
                                                        "Expected ')', found ")),
                              expr |-> <<>>, returned |-> TRUE]
                        ELSE [p |-> next_token(inner.p), expr |-> inner.expr,
                              returned |-> FALSE]
              [] OTHER -> [p |-> p, expr |-> <<>>, returned |-> FALSE]
    IN  IF prefix.returned THEN [p |-> prefix.p, expr |-> <<>>]
        ELSE IF prefix.expr = <<>>
        THEN [p |-> push_error(prefix.p, ErrorHere(prefix.p,
                                             "No prefix parse function for ")),
              expr |-> <<>>]
        ELSE parse_expression_loop(prefix.p, prefix.expr[1], precedence)

\* a parse function's Parser afterwards and its Result<Node, ParseError>
Parsed(p, res) == [p |-> p, res |-> res]

\* Parser::parse_expression_statement (parser.rs 547-565)
parse_expression_statement(p) ==
    LET r == parse_expression(p, 0)
    IN  IF r.expr = <<>>
        THEN Parsed(r.p, Err(ErrorHere(r.p, "Expected expression, found ")))
        ELSE Parsed(IF current_token(r.p).t = "Semicolon" THEN next_token(r.p) ELSE r.p,
                    Ok(ExpressionStatement(r.expr[1])))

\* Parser::parse_let_statement (parser.rs 292-348)
parse_let_statement(p) ==
    LET p1 == next_token(p)
        p2 == next_token(p1)
        p3 == next_token(p2)
        p4 == next_token(p3)
        value == current_token(p3)
    IN  IF current_token(p1).t # "Identifier"
        THEN Parsed(p1, Err(ErrorHere(p1, "Expected identifier after 'let', found ")))
        ELSE IF current_token(p2).t # "Assign"
        THEN Parsed(p2, Err(ErrorHere(p2,
                 "Expected '=' after identifier in let statement, found ")))
        ELSE IF value.t \notin {"IntLiteral", "Identifier"}
        THEN Parsed(p3, Err(ErrorHere(p3,
                 "Expected expression after '=' in let statement, found ")))
        ELSE Parsed(IF current_token(p4).t = "Semicolon" THEN next_token(p4) ELSE p4,
                    Ok(LetStatement(current_token(p1).name,
                                    IF value.t = "IntLiteral"
                                    THEN IntegerLiteral(value.value)
                                    ELSE Identifier(value.name))))

\* the end of parse_function_parameters (parser.rs 245-257)
parse_function_parameters_end(p, parameters) ==
    IF current_token(p).t = "RightParen" THEN Parsed(next_token(p), Ok(parameters))
    ELSE Parsed(p, Err(ParseError("Unclosed parameter list, expected ')'",
                                  current_token(p))))

\* the `while` loop of parse_function_parameters (parser.rs 197-243)
RECURSIVE parse_function_parameters_loop(_, _)
parse_function_parameters_loop(p, parameters) ==
    IF current_token(p).t \in {"RightParen", "Eof"}
    THEN parse_function_parameters_end(p, parameters)
    ELSE IF current_token(p).t # "Identifier"
    THEN Parsed(p, Err(ErrorHere(p, "Expected parameter type, found ")))
    ELSE LET param_type == current_token(p).name
             p1 == next_token(p)
             p2 == next_token(p1)
         IN  IF current_token(p1).t = "RightParen"
             THEN parse_function_parameters_end(
                      p1, Append(parameters, <<param_type, "_unnamed">>))
             ELSE IF current_token(p1).t # "Identifier"
             THEN Parsed(p1, Err(ErrorHere(p1, "Expected parameter name after type '"
                                               \o param_type \o "', found ")))
             ELSE LET pushed == Append(parameters,
                                       <<param_type, current_token(p1).name>>)
                  IN  IF current_token(p2).t = "Comma"
                      THEN parse_function_parameters_loop(next_token(p2), pushed)
                      ELSE IF current_token(p2).t # "RightParen"
                      THEN Parsed(p2, Err(ErrorHere(p2,
                               "Expected ',' or ')' after parameter, found ")))
                      ELSE parse_function_parameters_loop(p2, pushed)

\* Parser::parse_function_parameters (parser.rs 189-258)
parse_function_parameters(p) ==
    IF current_token(p).t = "RightParen" THEN Parsed(next_token(p), Ok(<<>>))
    ELSE parse_function_parameters_loop(p, <<>>)

\* Parser::parse_block_statement (parser.rs 260-290): the loop and the end
parse_block_statement_loop(p, statements) ==
    IF current_token(p).t \notin {"RightBrace", "Eof"}
    THEN LET r == parse_statement(p)
             p1 == IF r.res.ok THEN r.p ELSE synchronize(push_error(r.p, r.res.error))
             p2 == IF current_token(p1).t \notin {"RightBrace", "Eof"}
                   THEN next_token(p1) ELSE p1
         IN  parse_block_statement_loop(
                 p2, IF r.res.ok THEN Append(statements, r.res.value) ELSE statements)
    ELSE IF current_token(p).t = "Eof"
    THEN Parsed(p, Err(ParseError("Unclosed block, expected '}'", current_token(p))))
    ELSE Parsed(p, Ok(Block(statements)))

parse_block_statement(p) == parse_block_statement_loop(next_token(p), <<>>)

\* Parser::parse_function (parser.rs 133-187)
parse_function(p) ==
    LET p1 == next_token(p)
        p2 == next_token(p1)
        name == current_token(p1).name
        parameters == parse_function_parameters(next_token(p2))
        body == parse_block_statement(parameters.p)
    IN  IF current_token(p1).t # "Identifier"
        THEN Parsed(p1, Err(ErrorHere(p1, "Expected identifier after 'fn', found ")))
        ELSE IF current_token(p2).t # "LeftParen"
        THEN Parsed(p2, Err(ParseError(
                 IF name = "main"
                 THEN "Expected '(' after function name 'main'. Functions in Resilient must have parameters, even if unused. Try: fn main(int dummy) { ... }"
                 ELSE "Expected '(' after function name '" \o name \o "'",
                 current_token(p2))))
        ELSE IF ~parameters.res.ok THEN parameters
        ELSE IF current_token(parameters.p).t # "LeftBrace"
        THEN Parsed(parameters.p, Err(ParseError(
                 "Expected '{' after function parameters for '" \o name \o "'",
                 current_token(parameters.p))))
        ELSE IF ~body.res.ok THEN body
        ELSE Parsed(body.p, Ok(Function(name, parameters.res.value, body.res.value)))

\* Parser::parse_statement (parser.rs 121-131)
parse_statement(p) ==
    CASE current_token(p).t = "Function" -> parse_function(p)
      [] current_token(p).t = "Let" -> parse_let_statement(p)
      [] OTHER -> parse_expression_statement(p)

\* Parser::parse_function_parameters of main.rs (400-434), which panics
\* where the one of parser.rs returns an error: the parameters, or a panic
RECURSIVE main_parse_function_parameters_loop(_, _)
main_parse_function_parameters_loop(p, parameters) ==
    IF current_token(p).t = "RightParen" THEN {Ok(parameters)}
    ELSE IF current_token(p).t # "Identifier" THEN {Panic("Expected parameter type")}
    ELSE LET p1 == next_token(p)
             p2 == next_token(p1)
         IN  IF current_token(p1).t # "Identifier"
             THEN {Panic("Expected parameter name")}
             ELSE LET pushed == Append(parameters,
                                       <<current_token(p).name, current_token(p1).name>>)
                  IN  IF current_token(p2).t = "Comma"
                      THEN main_parse_function_parameters_loop(next_token(p2), pushed)
                      ELSE IF current_token(p2).t # "RightParen"
                      THEN {Panic("Expected ',' or ')' after parameter")}
                      ELSE main_parse_function_parameters_loop(p2, pushed)

main_parse_function_parameters(p) ==
    IF current_token(p).t = "RightParen" THEN {Ok(<<>>)}
    ELSE main_parse_function_parameters_loop(p, <<>>)

(***************************************************************************)
(* parse_program (parser.rs 72-97) step by step: the statement, the        *)
(* recovery, the move to the next statement, and the return at Eof.        *)
(***************************************************************************)
\* fn (
SourceFnNoName == <<Tok("Function"), Tok("LeftParen")>>

\* let = 1 ;
SourceLetNoName == <<Tok("Let"), Tok("Assign"), TIntLiteral(1), Tok("Semicolon")>>

\* let x = 1 ;
SourceLet ==
    <<Tok("Let"), TIdentifier("x"), Tok("Assign"), TIntLiteral(1), Tok("Semicolon")>>

\* fn f ( ) { }
SourceFnNoParameters ==
    <<Tok("Function"), TIdentifier("f"), Tok("LeftParen"), Tok("RightParen"),
      Tok("LeftBrace"), Tok("RightBrace")>>

\* fn g ( int a ) { }
SourceFnOneParameter ==
    <<Tok("Function"), TIdentifier("g"), Tok("LeftParen"), TIdentifier("int"),
      TIdentifier("a"), Tok("RightParen"), Tok("LeftBrace"), Tok("RightBrace")>>

\* y ;
SourceExpression == <<TIdentifier("y"), Tok("Semicolon")>>

MalformedStatements == {SourceFnNoName, SourceLetNoName}

ValidStatements ==
    {SourceLet, SourceFnNoParameters, SourceFnOneParameter, SourceExpression}

\* how many statements a source has, at most
MaxStatements == 3

RECURSIVE SourcesOf(_)
SourcesOf(n) ==
    IF n = 0 THEN {<<>>}
    ELSE {source \o statement : source \in SourcesOf(n - 1),
                                statement \in MalformedStatements \cup ValidStatements}

Sources == UNION {SourcesOf(n) : n \in 1..MaxStatements}

\* `while self.current_token != Token::Eof { match self.parse_statement() .. }`
ParseProgramStatement ==
    /\ parser.pc = "statement" /\ current_token(parser.p).t # "Eof"
    /\ LET r == parse_statement(parser.p)
           p == IF r.res.ok THEN r.p ELSE push_error(r.p, r.res.error)
       IN  parser' = [parser EXCEPT
               !.p = p,
               !.program = IF r.res.ok THEN Append(@, r.res.value) ELSE @,
               !.started = Append(@, parser.p.position),
               !.pc = IF Len(p.errors) > 0 THEN "synchronize" ELSE "advance"]
    /\ UNCHANGED <<driver, type_check, program, inputs, ctl, kont, envs, output,
                   hist, prev, lexer>>

\* `if self.errors.len() > 0 { self.synchronize(); }`
ParseProgramSynchronize ==
    /\ parser.pc = "synchronize"
    /\ parser' = [parser EXCEPT !.p = synchronize(@),
                                !.stopped = <<[from |-> parser.p.position,
                                               at |-> synchronize(parser.p).position]>>,
                                !.pc = "advance"]
    /\ UNCHANGED <<driver, type_check, program, inputs, ctl, kont, envs, output,
                   hist, prev, lexer>>

\* `if self.current_token != Token::Eof { self.next_token(); }`
ParseProgramAdvance ==
    /\ parser.pc = "advance"
    /\ parser' = [parser EXCEPT
               !.p = IF current_token(@).t # "Eof" THEN next_token(@) ELSE @,
               !.pc = "statement"]
    /\ UNCHANGED <<driver, type_check, program, inputs, ctl, kont, envs, output,
                   hist, prev, lexer>>

\* the end of parse_program: Err(self.errors.clone()) or Ok(Node::Program(program))
ParseProgramReturn ==
    /\ parser.pc = "statement" /\ current_token(parser.p).t = "Eof"
    /\ parser' = [parser EXCEPT
               !.result = IF parser.p.errors # <<>> THEN <<Err(parser.p.errors)>>
                          ELSE <<Ok(Program(parser.program))>>,
               !.pc = "done"]
    /\ UNCHANGED <<driver, type_check, program, inputs, ctl, kont, envs, output,
                   hist, prev, lexer>>

\* parse_function of main.rs on a source that begins `fn name (`, up to the
\* return of its parse_function_parameters
MainParseFunctionParameters ==
    /\ parser.pc = "done" /\ parser.main = <<>>
    /\ Len(parser.p.tokens) >= 3
    /\ parser.p.tokens[1].t = "Function" /\ parser.p.tokens[2].t = "Identifier"
    /\ parser.p.tokens[3].t = "LeftParen"
    /\ \E outcome \in main_parse_function_parameters(
                         [Parser_new(parser.p.tokens) EXCEPT !.position = 4]) :
          parser' = [parser EXCEPT !.main = <<outcome>>]
    /\ UNCHANGED <<driver, type_check, program, inputs, ctl, kont, envs, output,
                   hist, prev, lexer>>

\* Parser::new on the tokens of a source, and parse_program's empty `program`;
\* started and stopped are history: where each parse_statement began, and
\* where the last synchronize began and stopped
InitParser ==
    /\ driver = "parser"
    /\ type_check = FALSE
    /\ program = Program(<<>>)
    /\ inputs = 0
    /\ ctl = Idle
    /\ kont = <<>>
    /\ envs = <<>>
    /\ output = NoOutput
    /\ hist = HistInit
    /\ prev = NoPrev
    /\ lexer = NoLexer
    /\ \E source \in Sources :
          parser = [pc |-> "statement", p |-> Parser_new(source), program |-> <<>>,
                    result |-> <<>>, started |-> <<>>, stopped |-> <<>>, main |-> <<>>]

NextParser ==
    \/ ParseProgramStatement
    \/ ParseProgramSynchronize
    \/ ParseProgramAdvance
    \/ ParseProgramReturn
    \/ MainParseFunctionParameters

SpecParser == InitParser /\ [][NextParser]_vars

(***************************************************************************)
(* The Lexer of main.rs (main.rs 59-259) on its own: Lexer::new on a       *)
(* text, then next_token called again and again.  A text is a sequence of  *)
(* characters; position and read_position are usize, here UsizeBits wide.  *)
(* `read_position += 1` past the largest usize panics in a build with      *)
(* overflow checks and wraps to 0 in a build without them.                 *)
(***************************************************************************)
\* the character '\0'
NUL == "NUL"

UsizeBits == 3

MaxUsize == 2 ^ UsizeBits - 1

\* the lexer after a panic with this message: nothing runs after it
lexer_panic(l, message) == [l EXCEPT !.panicked = <<message>>]

Panicked(l) == l.panicked # <<>>

\* Lexer::read_char (main.rs 78-86)
read_char(l) ==
    IF Panicked(l) THEN l
    ELSE LET ch == IF l.read_position >= Len(l.input) THEN NUL
                   ELSE l.input[l.read_position + 1]
             read == [l EXCEPT !.ch = ch, !.position = l.read_position]
         IN  IF l.read_position < MaxUsize
             THEN [read EXCEPT !.read_position = @ + 1]
             ELSE IF l.overflow_checks
             THEN lexer_panic(read, "attempt to add with overflow")
             ELSE [read EXCEPT !.read_position = 0]

\* Lexer::new (main.rs 67-76)
Lexer_new(input, overflow_checks) ==
    read_char([input |-> input, position |-> 0, read_position |-> 0, ch |-> NUL,
               overflow_checks |-> overflow_checks, panicked |-> <<>>])

\* Lexer::peek_char (main.rs 88-94)
peek_char(l) ==
    IF l.read_position >= Len(l.input) THEN NUL ELSE l.input[l.read_position + 1]

\* char::is_alphabetic or '_', on the characters of the texts below
is_letter(ch) == ch \in {"a", "n", "_"}

\* char::is_digit(10)
is_digit(ch) == ch \in {"0", "1", "2", "3", "4", "5", "6", "7", "8", "9"}

\* char::is_whitespace
is_whitespace(ch) == ch \in {" ", "\n", "\t", "\r"}

\* Lexer::skip_whitespace (main.rs 254-258)
RECURSIVE skip_whitespace(_)
skip_whitespace(l) ==
    IF ~Panicked(l) /\ is_whitespace(l.ch) THEN skip_whitespace(read_char(l)) ELSE l

\* self.input[from..to].iter().collect()
RECURSIVE Slice(_, _, _)
Slice(input, from, to) ==
    IF from >= to THEN "" ELSE input[from + 1] \o Slice(input, from + 1, to)

\* the loop of read_identifier and its slice (main.rs 186-192)
RECURSIVE read_identifier_loop(_)
read_identifier_loop(l) ==
    IF ~Panicked(l) /\ (is_letter(l.ch) \/ is_digit(l.ch))
    THEN read_identifier_loop(read_char(l)) ELSE l

read_identifier(l) ==
    LET after == read_identifier_loop(l)
    IN  [l |-> after, ident |-> Slice(l.input, l.position, after.position)]

\* the match on the identifier's text (main.rs 160-171)
Keyword(ident) ==
    CASE ident = "fn" -> Tok("Function")
      [] ident = "let" -> Tok("Let")
      [] ident = "live" -> Tok("Live")
      [] ident = "assert" -> Tok("Assert")
      [] ident = "if" -> Tok("If")
      [] ident = "else" -> Tok("Else")
      [] ident = "return" -> Tok("Return")
      [] ident = "true" -> [t |-> "BoolLiteral", b |-> TRUE]
      [] ident = "false" -> [t |-> "BoolLiteral", b |-> FALSE]
      [] OTHER -> TIdentifier(ident)

DigitValue(ch) ==
    CASE ch = "0" -> 0 [] ch = "1" -> 1 [] ch = "2" -> 2 [] ch = "3" -> 3
      [] ch = "4" -> 4 [] ch = "5" -> 5 [] ch = "6" -> 6 [] ch = "7" -> 7
      [] ch = "8" -> 8 [] ch = "9" -> 9

\* number_str.parse::<i64>() on digits
RECURSIVE ParseInt(_, _, _, _)
ParseInt(input, from, to, value) ==
    IF from >= to THEN value
    ELSE ParseInt(input, from + 1, to, 10 * value + DigitValue(input[from + 1]))

\* how many '.' the slice holds
RECURSIVE Dots(_, _, _)
Dots(input, from, to) ==
    IF from >= to THEN 0
    ELSE (IF input[from + 1] = "." THEN 1 ELSE 0) + Dots(input, from + 1, to)

\* the loop of read_number (main.rs 198-203)
RECURSIVE read_number_loop(_)
read_number_loop(l) ==
    IF ~Panicked(l) /\ (is_digit(l.ch) \/ l.ch = ".")
    THEN read_number_loop(read_char(l)) ELSE l

\* Lexer::read_number (main.rs 194-212): a Float token keeps its text here;
\* parse::<f64>() fails on a second '.', and unwrap() panics (the message
\* is written without its backquotes)
read_number(l) ==
    LET after == read_number_loop(l)
        dots == Dots(l.input, l.position, after.position)
    IN  IF Panicked(after) THEN [l |-> after, token |-> <<>>]
        ELSE IF dots = 0
        THEN [l |-> after,
              token |-> <<TIntLiteral(ParseInt(l.input, l.position, after.position, 0))>>]
        ELSE IF dots = 1
        THEN [l |-> after,
              token |-> <<[t |-> "FloatLiteral",
                           text |-> Slice(l.input, l.position, after.position)]>>]
        ELSE [l |-> lexer_panic(after, "called Result::unwrap() on an Err value"),
              token |-> <<>>]

\* the loop of read_string (main.rs 218-243): the text so far and the lexer
RECURSIVE read_string_loop(_, _)
read_string_loop(l, result) ==
    IF Panicked(l) \/ l.ch = "\"" \/ l.ch = NUL THEN [l |-> l, result |-> result]
    ELSE IF l.ch = "\\" /\ l.read_position < Len(l.input)
    THEN LET escaped == read_char(l)
             pushed == CASE escaped.ch = "n" -> "\n"
                         [] escaped.ch = "t" -> "\t"
                         [] escaped.ch = "r" -> "\r"
                         [] escaped.ch = "\\" -> "\\"
                         [] escaped.ch = "\"" -> "\""
                         [] OTHER -> "\\" \o escaped.ch
         IN  read_string_loop(read_char(escaped), result \o pushed)
    ELSE read_string_loop(read_char(l), result \o l.ch)

\* Lexer::read_string (main.rs 214-244)
read_string(l) == read_string_loop(l, "")

\* the arms of next_token that read one or two characters (main.rs 100-148)
Punctuation ==
    [c \in {"+", "-", "*", "(", ")", "{", "}", ",", ";", ":"} |->
        CASE c = "+" -> "Plus" [] c = "-" -> "Minus" [] c = "*" -> "Multiply"
          [] c = "(" -> "LeftParen" [] c = ")" -> "RightParen"
          [] c = "{" -> "LeftBrace" [] c = "}" -> "RightBrace"
          [] c = "," -> "Comma" [] c = ";" -> "Semicolon" [] c = ":" -> "Colon"]

\* `if self.peek_char() == '=' { self.read_char(); two } else { one }`
WithEqual(l, two, one) ==
    IF peek_char(l) = "=" THEN [l |-> read_char(l), token |-> <<Tok(two)>>]
    ELSE [l |-> l, token |-> <<Tok(one)>>]

\* the comment loop of next_token, up to the end of the line or of the
\* text (main.rs 110-112)
RECURSIVE skip_comment(_)
skip_comment(l) ==
    IF ~Panicked(l) /\ l.ch # "\n" /\ l.ch # NUL THEN skip_comment(read_char(l)) ELSE l

\* Lexer::next_token (main.rs 96-184): the lexer afterwards and the Token
\* returned, or none after a panic
RECURSIVE Lexer_next_token(_)
Lexer_next_token(lexer0) ==
    LET l == skip_whitespace(lexer0)
        matched ==
            CASE l.ch = "=" -> WithEqual(l, "Equal", "Assign")
              [] l.ch = ">" -> WithEqual(l, "GreaterEqual", "Greater")
              [] l.ch = "<" -> WithEqual(l, "LessEqual", "Less")
              [] l.ch = "!" ->
                    IF peek_char(l) = "="
                    THEN [l |-> read_char(l), token |-> <<Tok("NotEqual")>>]
                    ELSE [l |-> lexer_panic(l, "Unexpected character: !"),
                          token |-> <<>>]
              [] l.ch = "/" -> [l |-> l, token |-> <<Tok("Divide")>>]
              [] l.ch \in DOMAIN Punctuation ->
                    [l |-> l, token |-> <<Tok(Punctuation[l.ch])>>]
              [] l.ch = "\"" ->
                    LET r == read_string(read_char(l))
                    IN  [l |-> r.l, token |-> <<[t |-> "StringLiteral", s |-> r.result]>>]
              [] l.ch = NUL -> [l |-> l, token |-> <<Eof>>]
              [] is_letter(l.ch) ->
                    LET r == read_identifier(l)
                    IN  [l |-> r.l, token |-> <<Keyword(r.ident)>>]
              [] OTHER ->
                    [l |-> lexer_panic(l, "Unexpected character: " \o l.ch),
                     token |-> <<>>]
        after == read_char(matched.l)
    IN  IF Panicked(l) THEN [l |-> l, token |-> <<>>]
        ELSE IF l.ch = "/" /\ peek_char(l) = "/"
        THEN Lexer_next_token(skip_comment(l))
        ELSE IF ~is_letter(l.ch) /\ is_digit(l.ch) THEN read_number(l)
        ELSE IF Panicked(after) THEN [l |-> after, token |-> <<>>]
        ELSE [l |-> after, token |-> matched.token]

\* the characters of the texts, and how long a text is at most
Characters == {"a", "1", ".", " ", "\n", "=", "!", "/", ";", "\"", "\\", NUL}

MaxChars == 3

Texts == UNION {[1..n -> Characters] : n \in 0..MaxChars}

\* Lexer::new(input) in a build with or without overflow checks
LexerNew ==
    /\ lexer.pc = "new"
    /\ \E input \in Texts, overflow_checks \in BOOLEAN :
          lexer' = [pc |-> "ready", l |-> Lexer_new(input, overflow_checks),
                    last |-> <<>>, eof_returned |-> FALSE, eof_before |-> FALSE,
                    calls |-> 0]
    /\ UNCHANGED <<driver, type_check, program, inputs, ctl, kont, envs, output,
                   hist, prev, parser>>

\* one call of next_token.  last, eof_returned and eof_before are history:
\* the Token of the last call (none after a panic), whether a call returned
\* Eof so far, and whether one had before the last call; calls counts the
\* calls up to the first Eof
LexerNextToken ==
    /\ lexer.pc = "ready"
    /\ LET r == Lexer_next_token(lexer.l)
       IN  lexer' = [lexer EXCEPT
               !.l = r.l,
               !.pc = IF Panicked(r.l) THEN "panicked" ELSE "ready",
               !.last = r.token,
               !.eof_before = lexer.eof_returned,
               !.eof_returned = @ \/ r.token = <<Eof>>,
               !.calls = IF lexer.eof_returned THEN @ ELSE @ + 1]
    /\ UNCHANGED <<driver, type_check, program, inputs, ctl, kont, envs, output,
                   hist, prev, parser>>

InitLexer ==
    /\ driver = "lexer"
    /\ type_check = FALSE
    /\ program = Program(<<>>)
    /\ inputs = 0
    /\ ctl = Idle
    /\ kont = <<>>
    /\ envs = <<>>
    /\ output = NoOutput
    /\ hist = HistInit
    /\ prev = NoPrev
    /\ parser = NoParser
    /\ lexer = [pc |-> "new"]

NextLexer ==
    \/ LexerNew
    \/ LexerNextToken

SpecLexer == InitLexer /\ [][NextLexer]_vars

(***************************************************************************)
(* The Parser of main.rs (main.rs 314-712), the one the drivers run.  It   *)
(* is the token stream and the position of current_token, as above        *)
(* (current_token, peek_token and next_token are the same shift, main.rs   *)
(* 333-336), and it panics where the Parser of parser.rs records an error. *)
(* An Option<Node> is a sequence of length 0 or 1.  A Float token carries  *)
(* its value as num / den.  The messages of unwrap() are written without   *)
(* their backquotes.                                                       *)
(***************************************************************************)
\* Parser::new (main.rs 321-331), after its two next_token
MainParser_new(tokens) == [tokens |-> tokens, position |-> 1, panicked |-> <<>>]

\* the parser after panic!(message): nothing runs after it
parser_panic(p, message) == [p EXCEPT !.panicked = <<message>>]

\* what a parse function returns: the Parser afterwards and the node
ParsedNode(p, node) == [p |-> p, node |-> node]

\* Option::unwrap on what a parse function returned
Unwrapped(r) ==
    IF ~Panicked(r.p) /\ r.node = <<>>
    THEN ParsedNode(parser_panic(r.p, "called Option::unwrap() on a None value"), <<>>)
    ELSE r

\* the operator text of parse_infix_expression's match (main.rs 629-641)
OperatorText ==
    [Plus |-> "+", Minus |-> "-", Multiply |-> "*", Divide |-> "/", Equal |-> "==",
     NotEqual |-> "!=", Less |-> "<", Greater |-> ">", LessEqual |-> "<=",
     GreaterEqual |-> ">="]

\* the match of current_precedence and peek_precedence on a Token
precedence_of(token) ==
    CASE token.t \in {"Equal", "NotEqual"} -> 2
      [] token.t \in {"Less", "Greater", "LessEqual", "GreaterEqual"} -> 3
      [] token.t \in {"Plus", "Minus"} -> 4
      [] token.t \in {"Multiply", "Divide"} -> 5
      [] token.t = "LeftParen" -> 6
      [] OTHER -> 0

\* Parser::current_precedence (main.rs 690-699)
main_current_precedence(p) == precedence_of(current_token(p))

\* Parser::peek_precedence (main.rs 701-710)
main_peek_precedence(p) == precedence_of(peek_token(p))

RECURSIVE main_parse_expression(_, _)
RECURSIVE main_parse_expression_loop(_, _, _)
RECURSIVE main_parse_call_arguments_loop(_, _)
RECURSIVE main_parse_statement(_)
RECURSIVE main_parse_block_statement_loop(_, _)

\* `args.push(self.parse_expression(0).unwrap())` (main.rs 673, 680) with
\* the argument parsed, and the rest of parse_call_arguments
call_argument_parsed(r, args) ==
    IF Panicked(r.p) THEN [p |-> r.p, args |-> args]
    ELSE main_parse_call_arguments_loop(r.p, args \o r.node)

\* the `while self.peek_token == Token::Comma` loop and the end of
\* parse_call_arguments (main.rs 675-687)
main_parse_call_arguments_loop(p, args) ==
    IF peek_token(p).t = "Comma"
    THEN call_argument_parsed(
             Unwrapped(main_parse_expression(next_token(next_token(p)), 0)), args)
    ELSE IF peek_token(p).t # "RightParen"
    THEN [p |-> parser_panic(p, "Expected ')' after arguments"), args |-> args]
    ELSE [p |-> next_token(p), args |-> args]

\* Parser::parse_call_arguments (main.rs 664-688)
main_parse_call_arguments(p) ==
    IF peek_token(p).t = "RightParen" THEN [p |-> next_token(p), args |-> <<>>]
    ELSE call_argument_parsed(Unwrapped(main_parse_expression(next_token(p), 0)), <<>>)

\* `Node::CallExpression { function: Box::new(function), arguments }`
\* (main.rs 658-661) of the arguments parsed
call_expression_of(function, a) ==
    ParsedNode(a.p, IF Panicked(a.p) THEN <<>> ELSE <<CallExpression(function, a.args)>>)

\* Parser::parse_call_expression (main.rs 655-662)
main_parse_call_expression(p, function) ==
    call_expression_of(function, main_parse_call_arguments(p))

\* `Some(Node::InfixExpression { left, operator, right })` (main.rs 648-652)
\* of the right operand parsed
infix_expression_of(left, operator, right) ==
    IF Panicked(right.p) THEN ParsedNode(right.p, <<>>)
    ELSE ParsedNode(right.p, <<InfixExpression(left, operator, right.node[1])>>)

\* Parser::parse_infix_expression (main.rs 628-653)
main_parse_infix_expression(p, left) ==
    IF current_token(p).t \notin DOMAIN OperatorText
    THEN ParsedNode(parser_panic(p, "Invalid operator"), <<>>)
    ELSE infix_expression_of(
             left, OperatorText[current_token(p).t],
             Unwrapped(main_parse_expression(next_token(p), main_current_precedence(p))))

\* the loop of parse_expression goes on from a left_expr (main.rs 608, 620-622)
main_parse_expression_from(r, precedence) ==
    main_parse_expression_loop(r.p, r.node, precedence)

\* the `while` loop of parse_expression (main.rs 608-623); a token of
\* precedence above 0 is an operator or a '('
main_parse_expression_loop(p, left_expr, precedence) ==
    IF Panicked(p) THEN ParsedNode(p, <<>>)
    ELSE IF peek_token(p).t # "Semicolon" /\ precedence < main_peek_precedence(p)
    THEN IF left_expr = <<>>
         THEN Unwrapped(ParsedNode(next_token(p), left_expr))
         ELSE main_parse_expression_from(
                  IF peek_token(p).t = "LeftParen"
                  THEN main_parse_call_expression(next_token(p), left_expr[1])
                  ELSE main_parse_infix_expression(next_token(p), left_expr[1]),
                  precedence)
    ELSE ParsedNode(p, left_expr)

\* the end of the Token::LeftParen arm (main.rs 599-603) of the inner
\* expression parsed
group_closed(expr) ==
    IF ~Panicked(expr.p) /\ current_token(expr.p).t # "RightParen"
    THEN ParsedNode(parser_panic(expr.p, "Expected ')'"), <<>>)
    ELSE expr

\* the `match &self.current_token` of parse_expression (main.rs 590-606)
main_parse_prefix(p, token) ==
    CASE token.t = "Identifier" -> ParsedNode(p, <<Identifier(token.name)>>)
      [] token.t = "IntLiteral" -> ParsedNode(p, <<IntegerLiteral(token.value)>>)
      [] token.t = "FloatLiteral" -> ParsedNode(p, <<FloatLiteral(token.num, token.den)>>)
      [] token.t = "StringLiteral" -> ParsedNode(p, <<StringLiteral(token.s)>>)
      [] token.t = "BoolLiteral" -> ParsedNode(p, <<BooleanLiteral(token.b)>>)
      [] token.t = "LeftParen" -> group_closed(main_parse_expression(next_token(p), 0))
      [] OTHER -> ParsedNode(p, <<>>)

\* Parser::parse_expression (main.rs 589-626)
main_parse_expression(p, precedence) ==
    main_parse_expression_from(main_parse_prefix(p, current_token(p)), precedence)

\* `if self.peek_token == Token::Semicolon { self.next_token(); }`
SkipToSemicolon(p) == IF peek_token(p).t = "Semicolon" THEN next_token(p) ELSE p

\* the end of parse_expression_statement (main.rs 580-586) of the expression parsed
expression_statement_of(expr) ==
    IF Panicked(expr.p) \/ expr.node = <<>> THEN ParsedNode(expr.p, <<>>)
    ELSE ParsedNode(SkipToSemicolon(expr.p), <<ExpressionStatement(expr.node[1])>>)

\* Parser::parse_expression_statement (main.rs 579-587)
main_parse_expression_statement(p) == expression_statement_of(main_parse_expression(p, 0))

\* the end of parse_let_statement (main.rs 470-476) of the value parsed
let_statement_of(name, value) ==
    IF Panicked(value.p) THEN value
    ELSE ParsedNode(SkipToSemicolon(value.p), <<LetStatement(name, value.node[1])>>)

\* parse_let_statement from the token after `let` (main.rs 454-468)
main_parse_let_name(p1, p2) ==
    IF current_token(p1).t # "Identifier"
    THEN ParsedNode(parser_panic(p1, "Expected identifier after 'let'"), <<>>)
    ELSE IF current_token(p2).t # "Assign"
    THEN ParsedNode(parser_panic(p2, "Expected '=' after identifier in let statement"), <<>>)
    ELSE let_statement_of(current_token(p1).name,
                          Unwrapped(main_parse_expression(next_token(p2), 0)))

\* Parser::parse_let_statement (main.rs 451-477)
main_parse_let_statement(p) == main_parse_let_name(next_token(p), next_token(next_token(p)))

\* the end of parse_return_statement (main.rs 484-490) of the value parsed
return_statement_of(value) ==
    IF Panicked(value.p) THEN value
    ELSE ParsedNode(SkipToSemicolon(value.p), <<ReturnStatement(value.node[1])>>)

\* Parser::parse_return_statement (main.rs 479-491)
main_parse_return_statement(p) ==
    return_statement_of(Unwrapped(main_parse_expression(next_token(p), 0)))

\* `statements.push(stmt)` and `self.next_token()` (main.rs 442-445) of the
\* statement parsed, and the rest of the loop
block_statement_parsed(stmt, statements) ==
    IF Panicked(stmt.p) THEN ParsedNode(stmt.p, <<>>)
    ELSE main_parse_block_statement_loop(next_token(stmt.p), statements \o stmt.node)

\* the `while` loop of parse_block_statement (main.rs 441-446)
main_parse_block_statement_loop(p, statements) ==
    IF Panicked(p) THEN ParsedNode(p, <<>>)
    ELSE IF current_token(p).t # "RightBrace" /\ current_token(p).t # "Eof"
    THEN block_statement_parsed(main_parse_statement(p), statements)
    ELSE ParsedNode(p, <<Block(statements)>>)

\* Parser::parse_block_statement (main.rs 436-449)
main_parse_block_statement(p) == main_parse_block_statement_loop(next_token(p), <<>>)

RECURSIVE main_parameters_loop(_, _)

\* the end of one turn of the loop of parse_function_parameters (main.rs
\* 417-432), the name of the parameter in p1
main_parameter_pushed(p1, p2, parameters, pushed) ==
    IF current_token(p1).t # "Identifier"
    THEN [p |-> parser_panic(p1, "Expected parameter name"), parameters |-> parameters]
    ELSE IF current_token(p2).t = "Comma" THEN main_parameters_loop(next_token(p2), pushed)
    ELSE IF current_token(p2).t # "RightParen"
    THEN [p |-> parser_panic(p2, "Expected ',' or ')' after parameter"),
          parameters |-> pushed]
    ELSE main_parameters_loop(p2, pushed)

\* the `while` loop and the end of parse_function_parameters (main.rs
\* 408-433), with the Parser it leaves
main_parameters_loop(p, parameters) ==
    IF current_token(p).t = "RightParen"
    THEN [p |-> next_token(p), parameters |-> parameters]
    ELSE IF current_token(p).t # "Identifier"
    THEN [p |-> parser_panic(p, "Expected parameter type"), parameters |-> parameters]
    ELSE main_parameter_pushed(
             next_token(p), next_token(next_token(p)), parameters,
             Append(parameters, <<current_token(p).name, current_token(next_token(p)).name>>))

\* Parser::parse_function_parameters (main.rs 400-434), with the Parser it leaves
main_parameters(p) ==
    IF current_token(p).t = "RightParen" THEN [p |-> next_token(p), parameters |-> <<>>]
    ELSE main_parameters_loop(p, <<>>)

\* `Node::Function { name, parameters, body: Box::new(body) }` (main.rs
\* 391-397) of the body parsed
function_of(name, parameters, body) ==
    IF Panicked(body.p) THEN body
    ELSE ParsedNode(body.p, <<Function(name, parameters, body.node[1])>>)

\* parse_function from the parameters parsed (main.rs 385-397)
main_parse_function_body(name, parameters) ==
    IF Panicked(parameters.p) THEN ParsedNode(parameters.p, <<>>)
    ELSE IF current_token(parameters.p).t # "LeftBrace"
    THEN ParsedNode(parser_panic(parameters.p, "Expected '{' after function parameters"),
                    <<>>)
    ELSE function_of(name, parameters.parameters, main_parse_block_statement(parameters.p))

\* parse_function from the token after `fn` (main.rs 366-383)
main_parse_function_name(p1, p2, name) ==
    IF current_token(p1).t # "Identifier"
    THEN ParsedNode(parser_panic(p1, "Expected identifier after 'fn'"), <<>>)
    ELSE IF current_token(p2).t # "LeftParen"
    THEN ParsedNode(parser_panic(p2,
             IF name = "main"
             THEN "Expected '(' after function name. Functions in Resilient must have parameters, even if unused. Try: fn main(int dummy) { ... }"
             ELSE "Expected '(' after function name"), <<>>)
    ELSE main_parse_function_body(name, main_parameters(next_token(p2)))

\* Parser::parse_function (main.rs 363-398)
main_parse_function(p) ==
    main_parse_function_name(next_token(p), next_token(next_token(p)),
                             IF current_token(next_token(p)).t = "Identifier"
                             THEN current_token(next_token(p)).name ELSE "")

\* `Node::LiveBlock { body: Box::new(body) }` (main.rs 502-504) of the body parsed
live_block_of(body) ==
    IF Panicked(body.p) THEN body ELSE ParsedNode(body.p, <<LiveBlock(body.node[1])>>)

\* parse_live_block from the token after `live` (main.rs 496-504)
main_parse_live_body(p1) ==
    IF current_token(p1).t # "LeftBrace"
    THEN ParsedNode(parser_panic(p1, "Expected '{' after 'live'"), <<>>)
    ELSE live_block_of(main_parse_block_statement(p1))

\* Parser::parse_live_block (main.rs 493-505)
main_parse_live_block(p) == main_parse_live_body(next_token(p))

\* the end of parse_assert (main.rs 524-532): the ')' and the node; message
\* is the node of the message or <<>>, last the Parser after both
assert_closed(condition, message, last) ==
    IF Panicked(last) THEN ParsedNode(last, <<>>)
    ELSE IF current_token(last).t # "RightParen"
    THEN ParsedNode(parser_panic(last, "Expected ')' after assert condition"), <<>>)
    ELSE ParsedNode(last, <<AssertNode(condition, message)>>)

\* the message of parse_assert (main.rs 519-522) parsed
assert_message_of(condition, message) == assert_closed(condition, message.node, message.p)

\* parse_assert from the condition parsed (main.rs 515-532)
assert_condition_of(condition) ==
    IF Panicked(condition.p) THEN condition
    ELSE IF current_token(condition.p).t = "Comma"
    THEN assert_message_of(
             condition.node[1],
             Unwrapped(main_parse_expression(next_token(condition.p), 0)))
    ELSE assert_closed(condition.node[1], <<>>, condition.p)

\* parse_assert from the token after `assert` (main.rs 510-532)
main_parse_assert_condition(p1) ==
    IF current_token(p1).t # "LeftParen"
    THEN ParsedNode(parser_panic(p1, "Expected '(' after 'assert'"), <<>>)
    ELSE assert_condition_of(Unwrapped(main_parse_expression(next_token(p1), 0)))

\* Parser::parse_assert (main.rs 507-533)
main_parse_assert(p) == main_parse_assert_condition(next_token(p))

\* the end of parse_if_statement (main.rs 570-576) of the alternative parsed
if_alternative_of(condition, consequence, alternative) ==
    IF Panicked(alternative.p) THEN alternative
    ELSE ParsedNode(alternative.p,
                    <<IfStatement(condition, consequence, alternative.node)>>)

\* the `else` of parse_if_statement (main.rs 557-568), at_else the Parser
\* after `self.next_token(); self.next_token();`
if_else(condition, consequence, at_else) ==
    IF current_token(at_else).t # "LeftBrace"
    THEN ParsedNode(parser_panic(at_else, "Expected '{' after 'else'"), <<>>)
    ELSE if_alternative_of(condition, consequence, main_parse_block_statement(at_else))

\* parse_if_statement from the consequence parsed (main.rs 557-576)
if_consequence_of(condition, consequence) ==
    IF Panicked(consequence.p) THEN consequence
    ELSE IF peek_token(consequence.p).t # "Else"
    THEN ParsedNode(consequence.p, <<IfStatement(condition, consequence.node[1], <<>>)>>)
    ELSE if_else(condition, consequence.node[1], next_token(next_token(consequence.p)))

\* `if self.current_token != Token::LeftBrace { panic!(..) }` and the
\* consequence (main.rs 551-555)
if_condition_closed(condition, closed) ==
    IF current_token(closed).t # "LeftBrace"
    THEN ParsedNode(parser_panic(closed, "Expected '{' after if condition"), <<>>)
    ELSE if_consequence_of(condition, main_parse_block_statement(closed))

\* parse_if_statement from the condition parsed (main.rs 544-555)
if_condition_of(parenthesized, expr) ==
    IF Panicked(expr.p) THEN expr
    ELSE IF parenthesized /\ current_token(expr.p).t # "RightParen"
    THEN ParsedNode(parser_panic(expr.p, "Expected ')' after if condition"), <<>>)
    ELSE if_condition_closed(expr.node[1],
                             IF parenthesized THEN next_token(expr.p) ELSE expr.p)

\* parse_if_statement from the token after `if` (main.rs 538-555)
main_parse_if_condition(p1, parenthesized) ==
    if_condition_of(parenthesized,
                    Unwrapped(main_parse_expression(
                                  IF parenthesized THEN next_token(p1) ELSE p1, 0)))

\* Parser::parse_if_statement (main.rs 535-577)
main_parse_if_statement(p) ==
    main_parse_if_condition(next_token(p), current_token(next_token(p)).t = "LeftParen")

\* Parser::parse_statement (main.rs 351-361)
main_parse_statement(p) ==
    CASE current_token(p).t = "Function" -> main_parse_function(p)
      [] current_token(p).t = "Let" -> main_parse_let_statement(p)
      [] current_token(p).t = "Return" -> main_parse_return_statement(p)
      [] current_token(p).t = "Live" -> main_parse_live_block(p)
      [] current_token(p).t = "Assert" -> main_parse_assert(p)
      [] current_token(p).t = "If" -> main_parse_if_statement(p)
      [] OTHER -> main_parse_expression_statement(p)

RECURSIVE main_parse_program_loop(_, _)

\* `statements.push(statement)` and `self.next_token()` (main.rs 342-345) of
\* the statement parsed, and the rest of the loop
program_statement_parsed(statement, statements) ==
    IF Panicked(statement.p) THEN ParsedNode(statement.p, <<>>)
    ELSE main_parse_program_loop(next_token(statement.p), statements \o statement.node)

\* the `while` loop of parse_program (main.rs 341-346)
main_parse_program_loop(p, statements) ==
    IF Panicked(p) THEN ParsedNode(p, <<>>)
    ELSE IF current_token(p).t # "Eof"
    THEN program_statement_parsed(main_parse_statement(p), statements)
    ELSE ParsedNode(p, <<Program(statements)>>)

\* Parser::parse_program (main.rs 338-349) on the tokens of a source
main_parse_program(tokens) == main_parse_program_loop(MainParser_new(tokens), <<>>)

(***************************************************************************)
(* The drivers on source code: Lexer, Parser::parse_program and then the   *)
(* run, as execute_file (main.rs 1231-1255) and the loop of start_repl     *)
(* (main.rs 1179-1205) do it.  A source is the Token sequence the Lexer    *)
(* gives for the text in the comment above it; a word of the text is the   *)
(* Token of the Lexer's keyword table (main.rs 160-171).                   *)
(***************************************************************************)
Word(ident) == Keyword(ident)

LParen == Tok("LeftParen")

RParen == Tok("RightParen")

LBrace == Tok("LeftBrace")

RBrace == Tok("RightBrace")

Semi == Tok("Semicolon")

\* let <name> = <tokens> ;
SrcLet(name, tokens) == <<Word("let"), Word(name), Tok("Assign")>> \o tokens \o <<Semi>>

\* <callee> ( <tokens> )
SrcCall(callee, tokens) == <<Word(callee), LParen>> \o tokens \o <<RParen>>

\* fn <name> ( int <parameter> ) { <tokens> }
SrcFn(name, parameter, tokens) ==
    <<Word("fn"), Word(name), LParen, Word("int"), Word(parameter), RParen, LBrace>>
    \o tokens \o <<RBrace>>

\* return <tokens> ;
SrcReturn(tokens) == <<Word("return")>> \o tokens \o <<Semi>>

\* live { <tokens> }
SrcLive(tokens) == <<Word("live"), LBrace>> \o tokens \o <<RBrace>>

\* let r = f ( <argument> ) ; let s = f ( <argument> ) ;
SrcTwoCalls(argument) ==
    SrcLet("r", SrcCall("f", <<TIntLiteral(argument)>>))
    \o SrcLet("s", SrcCall("f", <<TIntLiteral(argument)>>))

\* let x = x + 1 ; return x ;
SrcCountX ==
    SrcLet("x", <<Word("x"), Tok("Plus"), TIntLiteral(1)>>) \o SrcReturn(<<Word("x")>>)

\* fn f ( int d ) { static let x = 0 ; let x = x + 1 ; return x ; }
\* let r = f ( 0 ) ; let s = f ( 0 ) ;
SourceStatic ==
    SrcFn("f", "d", <<Word("static")>> \o SrcLet("x", <<TIntLiteral(0)>>) \o SrcCountX)
    \o SrcTwoCalls(0)

\* let static = 7 ; and the source above
SourceStaticBound == SrcLet("static", <<TIntLiteral(7)>>) \o SourceStatic

\* static let x = 0 ; fn f ( int d ) { let x = x + 1 ; return x ; }
\* let r = f ( 0 ) ; let s = f ( 0 ) ;
SourceStaticTop ==
    <<Word("static")>> \o SrcLet("x", <<TIntLiteral(0)>>) \o SrcFn("f", "d", SrcCountX)
    \o SrcTwoCalls(0)

\* fn t ( int a ) { return true ; }
\* fn f ( int a ) { live { if ( t ( a ) { return a ; let v = 1 ; } let u = 1 ; } let q = 2 ; }
\* let r = f ( 5 ) ; return r ; let z = 1 ;
\* (an `if` parses only with a condition that ends in a call and whose '('
\* is not closed: parse_if_statement looks for the ')' and the '{' in
\* current_token, main.rs 539-555)
SourceReturn ==
    SrcFn("t", "a", SrcReturn(<<Word("true")>>))
    \o SrcFn("f", "a",
             SrcLive(<<Word("if"), LParen>> \o SrcCall("t", <<Word("a")>>)
                     \o <<LBrace>> \o SrcReturn(<<Word("a")>>)
                     \o SrcLet("v", <<TIntLiteral(1)>>) \o <<RBrace>>
                     \o SrcLet("u", <<TIntLiteral(1)>>))
             \o SrcLet("q", <<TIntLiteral(2)>>))
    \o SrcLet("r", SrcCall("f", <<TIntLiteral(5)>>))
    \o SrcReturn(<<Word("r")>>) \o SrcLet("z", <<TIntLiteral(1)>>)

\* let n = 0 - <k> ; live { let n = n + 1 ; let q = 6 / n ; }
\* (with k = 1 the first attempt divides by zero; an attempt that went on
\* from the n of the failed one would not)
SourceHeal(k) ==
    SrcLet("n", <<TIntLiteral(0), Tok("Minus"), TIntLiteral(k)>>)
    \o SrcLive(SrcLet("n", <<Word("n"), Tok("Plus"), TIntLiteral(1)>>)
               \o SrcLet("q", <<TIntLiteral(6), Tok("Divide"), Word("n")>>))

\* let k = <k> ; live { live { let i = 1 ; } let q = 6 / k ; }
SourceNested(k) ==
    SrcLet("k", <<TIntLiteral(k)>>)
    \o SrcLive(SrcLive(SrcLet("i", <<TIntLiteral(1)>>))
               \o SrcLet("q", <<TIntLiteral(6), Tok("Divide"), Word("k")>>))

\* let c = 0 ; fn f ( int a ) { let c = c + a ; fn g ( int z ) { return z ; } return c ; }
\* let r = f ( 1 ) ; let s = f ( 1 ) ;
SourceFrame ==
    SrcLet("c", <<TIntLiteral(0)>>)
    \o SrcFn("f", "a",
             SrcLet("c", <<Word("c"), Tok("Plus"), Word("a")>>)
             \o SrcFn("g", "z", SrcReturn(<<Word("z")>>))
             \o SrcReturn(<<Word("c")>>))
    \o SrcTwoCalls(1)

\* fn f ( int n ) { return <callee> ( n ) ; }
SrcFnCalls(callee) == SrcFn("f", "n", SrcReturn(SrcCall(callee, <<Word("n")>>)))

\* fn f ( int n ) { return f ( n ) ; } let r = f ( 1 ) ;
SourceRecursion == SrcFnCalls("f") \o SrcLet("r", SrcCall("f", <<TIntLiteral(1)>>))

\* fn f ( int n ) { return g ( n ) ; } fn g ( int n ) { return n ; } let r = f ( 1 ) ;
SourceForward ==
    SrcFnCalls("g") \o SrcFn("g", "n", SrcReturn(<<Word("n")>>))
    \o SrcLet("r", SrcCall("f", <<TIntLiteral(1)>>))

\* fn f ( int n ) { return 4 ; } fn f ( int n ) { return f ( n ) ; } let r = f ( 1 ) ;
SourceRedefined ==
    SrcFn("f", "n", SrcReturn(<<TIntLiteral(4)>>)) \o SourceRecursion

\* let x = ( 1 + 2 ) * 3 ;
SourceGroup ==
    SrcLet("x", <<LParen, TIntLiteral(1), Tok("Plus"), TIntLiteral(2), RParen,
                  Tok("Multiply"), TIntLiteral(3)>>)

\* let a = 1 ; b ; let c = 2 ;
SourceFails == SrcLet("a", <<TIntLiteral(1)>>) \o <<Word("b"), Semi>>
               \o SrcLet("c", <<TIntLiteral(2)>>)

\* <name> ;
SourceRead(name) == <<Word(name), Semi>>

FileSources ==
    {SourceStatic, SourceStaticBound, SourceStaticTop, SourceReturn, SourceHeal(1),
     SourceHeal(3), SourceNested(0), SourceNested(2), SourceFrame, SourceRecursion,
     SourceForward, SourceRedefined, SourceGroup, SourceFails}

ReplSources ==
    {SourceFails, SourceRead("a"), SourceRead("c"), SourceHeal(1), SourceRecursion,
     SrcLet("r", SrcCall("f", <<TIntLiteral(1)>>)), SourceGroup}

\* parser.parse_program() on each source
FileParses == {main_parse_program(source) : source \in FileSources}

ReplParses == {main_parse_program(source) : source \in ReplSources}

\* the panic of parse_program ends the process
ParsePanics(parsed) ==
    /\ ctl' = Abort(parsed.p.panicked[1])
    /\ inputs' = inputs + 1
    /\ UNCHANGED <<driver, type_check, program, kont, envs, output, hist, prev,
                   parser, lexer>>

\* execute_file on a source file
ExecuteFileSource ==
    /\ driver = "file" /\ ctl.mode = "idle" /\ inputs < MaxInputs
    /\ \E parsed \in FileParses :
          IF Panicked(parsed.p) THEN ParsePanics(parsed)
          ELSE ExecuteFileOn({parsed.node[1]})

\* one line of code read by the REPL
ReplInputSource ==
    /\ driver = "repl" /\ ctl.mode = "idle" /\ inputs < MaxInputs
    /\ \E parsed \in ReplParses :
          IF Panicked(parsed.p) THEN ParsePanics(parsed)
          ELSE ReplInputOn({parsed.node[1]})

NextSource ==
    \/ ExecuteFileSource
    \/ ExecuteFileReturn
    \/ ReplInputSource
    \/ ReplResult
    \/ EvalProgram
    \/ EvalBlock
    \/ EvalFunction
    \/ EvalLiveBlock
    \/ EvalLetStatement
    \/ EvalReturnStatement
    \/ EvalIfStatement
    \/ EvalExpressionStatement
    \/ EvalIdentifier
    \/ EvalLiteral
    \/ EvalInfixExpression
    \/ EvalCallExpression
    \/ ProgramStatementResult
    \/ BlockStatementResult
    \/ LiveBlockResult
    \/ LetStatementResult
    \/ ReturnStatementResult
    \/ IfConditionResult
    \/ InfixLeftResult
    \/ InfixRightResult
    \/ CallFunctionResult
    \/ CallArgumentResult
    \/ ApplyFunctionResult

SpecSource == Init /\ [][NextSource]_vars

(***************************************************************************)
(* parse_expression(0) of main.rs on the tokens of one expression: two     *)
(* binary operators, a call, or a parenthesized sub-expression.            *)
(***************************************************************************)
OperatorTokens == DOMAIN OperatorText

\* the shapes of the expression sources, over the operators op1 and op2:
\*   "flat"         a op1 b op2 c
\*   "call_right"   a op1 f ( b )
\*   "call_left"    f ( a ) op1 b
\*   "call_inner"   a op1 f ( b op2 c )
\*   "group_left"   ( a op1 b ) op2 c
\*   "group_right"  a op1 ( b op2 c )
\*   "group_call"   ( a op1 f ( b ) ) op2 c
Shapes ==
    {"flat", "call_right", "call_left", "call_inner", "group_left", "group_right",
     "group_call"}

ExpressionSources == [shape : Shapes, op1 : OperatorTokens, op2 : OperatorTokens]

\* the tokens of an expression source
ExpressionTokens(e) ==
    LET a == TIdentifier("a")
        b == TIdentifier("b")
        c == TIdentifier("c")
        f == TIdentifier("f")
        lp == Tok("LeftParen")
        rp == Tok("RightParen")
        op1 == Tok(e.op1)
        op2 == Tok(e.op2)
    IN  CASE e.shape = "flat" -> <<a, op1, b, op2, c>>
          [] e.shape = "call_right" -> <<a, op1, f, lp, b, rp>>
          [] e.shape = "call_left" -> <<f, lp, a, rp, op1, b>>
          [] e.shape = "call_inner" -> <<a, op1, f, lp, b, op2, c, rp>>
          [] e.shape = "group_left" -> <<lp, a, op1, b, rp, op2, c>>
          [] e.shape = "group_right" -> <<a, op1, lp, b, op2, c, rp>>
          [] e.shape = "group_call" -> <<lp, a, op1, f, lp, b, rp, rp, op2, c>>

\* one expression is handed to parse_expression(0)
MainParseExpression ==
    /\ parser.pc = "expression"
    /\ parser' = [parser EXCEPT
               !.result = <<main_parse_expression(
                                MainParser_new(ExpressionTokens(parser.source)), 0)>>,
               !.pc = "parsed"]
    /\ UNCHANGED <<driver, type_check, program, inputs, ctl, kont, envs, output,
                   hist, prev, lexer>>

\* the caller of parse_expression goes on (or the process has ended)
MainParseExpressionReturn ==
    /\ parser.pc = "parsed"
    /\ parser' = [parser EXCEPT !.pc = "done"]
    /\ UNCHANGED <<driver, type_check, program, inputs, ctl, kont, envs, output,
                   hist, prev, lexer>>

InitExpression ==
    /\ driver = "parser"
    /\ type_check = FALSE
    /\ program = Program(<<>>)
    /\ inputs = 0
    /\ ctl = Idle
    /\ kont = <<>>
    /\ envs = <<>>
    /\ output = NoOutput
    /\ hist = HistInit
    /\ prev = NoPrev
    /\ lexer = NoLexer
    /\ \E source \in ExpressionSources :
          parser = [pc |-> "expression", source |-> source, result |-> <<>>]

NextExpression ==
    \/ MainParseExpression
    \/ MainParseExpressionReturn

SpecExpression == InitExpression /\ [][NextExpression]_vars

(***************************************************************************)
(* The properties of the live block, of assert and of the type check       *)
(* gate, stated on the machine above.                                      *)
(***************************************************************************)
\* an eval_live_block has returned in this run, and its history
Exited == hist.last_exit # <<>>

LastExit == hist.last_exit[1]

\* Interpreter::eval(&program) has returned to the driver, and what it left
Finished == ctl.mode = "idle" /\ hist.final # <<>>

Final == hist.final[1]

\* the text s has the text sub in it
Contains(s, sub) ==
    \E i \in 1..(Len(s) - Len(sub) + 1) : SubSeq(s, i, i + Len(sub) - 1) = sub

EndsWith(s, sub) ==
    Len(sub) <= Len(s) /\ SubSeq(s, Len(s) - Len(sub) + 1, Len(s)) = sub

\* the d-th live block from the outermost of those being evaluated
LiveAt(stack, d) == LiveFrames(stack)[Len(LiveFrames(stack)) - d + 1]

\* live { assert(false, "x"); }
ProgAlwaysFails == WithLive(LiveCase(<<>>, BodyAssertFalse, <<>>))

\* C1: a live block whose body fails on every attempt starts its body
\* exactly 3 times and then returns a Failure: no live block is ever in a
\* fourth attempt, a live block that returns a Failure has made 3 attempts
\* and the last of them failed, and a failed last attempt is never answered
\* with a success.
C1_ThreeAttempts ==
    /\ \A i \in 1..Len(LiveFrames(kont)) :
          /\ LiveFrames(kont)[i].attempts <= 3
          /\ LiveFrames(kont)[i].attempts = LiveFrames(kont)[i].retry_count + 1
    /\ Exited =>
          /\ ~LastExit.cause.ok => ~LastExit.ok /\ LastExit.attempts = 3
          /\ ~LastExit.ok => ~LastExit.cause.ok /\ LastExit.attempts = 3
    /\ Finished /\ program = ProgAlwaysFails =>
          ~Final.res.ok /\ hist.body_evals = <<3>>

C1_Witness ==
    /\ Finished /\ program = ProgAlwaysFails
    /\ Exited /\ ~LastExit.ok /\ LastExit.attempts = 3

\* a live block is about to evaluate its body again after a failed attempt
RetryStarts ==
    /\ ctl.mode = "eval" /\ kont # <<>>
    /\ Head(kont).k = "LiveBlock" /\ Head(kont).attempts > 1

\* C2: when a retry starts, the environment is the one the live block was
\* entered with: every name has the value it had at entry, and a name first
\* bound during the failed attempt is bound no more. The snapshot in use is
\* the one taken at entry.
C2_RetryFromSnapshot ==
    RetryStarts =>
        /\ self_env = Head(kont).entry_env
        /\ Head(kont).env_snapshot = Head(kont).entry_env
        /\ \A name \in {"n", "m", "a", "b", "c", "result"} :
              get(self_env, name) = get(Head(kont).entry_env, name)

\* the failed attempt had rebound n and bound m
C2_Witness ==
    /\ RetryStarts /\ program = WithLive(CaseCounter)
    /\ get(Head(kont).first_env[1], "n") = <<ValueInt(1)>>
    /\ get(Head(kont).first_env[1], "m") = <<ValueInt(7)>>
    /\ get(self_env, "n") = <<ValueInt(0)>>
    /\ get(self_env, "m") = <<>>

\* C3: after the last failed attempt nothing is restored: the environment a
\* live block leaves at exhaustion is the one its first failed attempt left,
\* the restore point plus one attempt's effects. With n = 0 at entry and a
\* body that adds 1 to n and then fails, n is 1 after exhaustion.
C3_NoRestoreAtExhaustion ==
    /\ Exited /\ ~LastExit.ok =>
          /\ LastExit.env = LastExit.first_env[1]
          /\ program = WithLive(CaseCounter) =>
                /\ get(LastExit.entry_env, "n") = <<ValueInt(0)>>
                /\ get(LastExit.env, "n") = <<ValueInt(1)>>
    /\ Finished /\ program = WithLive(CaseCounter) =>
          get(Final.env, "n") = <<ValueInt(1)>>

C3_Witness ==
    /\ Finished /\ program = WithLive(CaseCounter)
    /\ Exited /\ ~LastExit.ok /\ LastExit.attempts = 3
    /\ LastExit.env # LastExit.entry_env
    /\ get(Final.env, "n") = <<ValueInt(1)>>

\* two file runs, one after the other: first `live { body }`, then the body
\* evaluated in the live block's place, and in the first run the body of that live
\* block succeeded at its first attempt
LiveThenDirect(c) ==
    /\ driver = "file" /\ prev # <<>> /\ Finished
    /\ prev[1].program = WithLive(c) /\ program = Direct(c)
    /\ prev[1].hist.final # <<>> /\ prev[1].hist.last_exit # <<>>
    /\ prev[1].hist.last_exit[1].depth = 1
    /\ prev[1].hist.last_exit[1].cause.ok
    /\ prev[1].hist.last_exit[1].attempts = 1

\* C4: a live block whose body succeeds at the first attempt does what the
\* body does: the same value, the same environment afterwards, no restore,
\* no attempt counted; and the type checker gives it its body's type.
C4_FirstSuccessIsTheBody ==
    \A c \in Cases :
        LiveThenDirect(c) =>
            /\ prev[1].hist.final[1].res = Final.res
            /\ prev[1].hist.final[1].env = Final.env
            /\ prev[1].hist.last_exit[1].res = prev[1].hist.last_exit[1].cause
            /\ prev[1].hist.last_exit[1].retry_count = 0
            /\ prev[1].hist.restores = hist.restores
            /\ prev[1].hist.body_evals[1] = 1
            /\ check_program(prev[1].program) = check_program(program)

C4_Witness ==
    /\ LiveThenDirect(CaseLet)
    /\ Final.res = Ok(ValueInt(2))
    /\ get(Final.env, "b") = <<ValueInt(2)>>

\* the programs with a live block that is exhausted inside a live block
NestedPrograms == {WithLive(CaseNested), WithLive(CaseCall(0))}

\* every entry of a live block starts at retry_count 0 with a snapshot of
\* the environment of that moment
C5_FreshEntry ==
    ctl.mode = "eval" /\ kont # <<>> /\ Head(kont).k = "LiveBlock"
    /\ Head(kont).attempts = 1
    => Head(kont).retry_count = 0 /\ Head(kont).env_snapshot = self_env

\* inner body 3 x 3 = 9 times, outer body 3 times
C5_Counts ==
    Finished /\ program \in NestedPrograms => hist.body_evals = <<3, 9>>

\* the counter of a live block is not touched while a live block inside it
\* is being evaluated, and it grows by 1 at a time, on a Failure of its
\* body: in the nested programs, on the exhaustion of the inner block
C5_Step ==
    \A d \in 1..Len(LiveFrames(kont)) :
        /\ d < Len(LiveFrames(kont)) =>
              /\ Len(LiveFrames(kont')) >= d
              /\ LiveAt(kont', d) = LiveAt(kont, d)
        /\ /\ d = Len(LiveFrames(kont))
           /\ Len(LiveFrames(kont')) >= d
           /\ LiveAt(kont', d).retry_count # LiveAt(kont, d).retry_count
           => /\ LiveAt(kont', d).retry_count = LiveAt(kont, d).retry_count + 1
              /\ Returned("LiveBlock") /\ ~ctl.res.ok
              /\ program \in NestedPrograms /\ d = 1 =>
                    /\ Exited /\ LastExit.depth = 2 /\ ~LastExit.ok
                    /\ LastExit.attempts = 3 /\ ctl.res = LastExit.res

\* C5: nested live blocks count their retries independently: every entry of
\* the inner block has its own counter from 0 and its own snapshot, the
\* outer counter grows by exactly 1 only when the inner block is exhausted,
\* so with both always failing the inner body is evaluated 9 times and the
\* outer body 3 times.
C5_NestedIndependent ==
    [](C5_FreshEntry /\ C5_Counts) /\ [][C5_Step]_vars

C5_Witness ==
    /\ Finished /\ program = WithLive(CaseCall(0))
    /\ hist.body_evals = <<3, 9>>
    /\ Exited /\ LastExit.depth = 1 /\ LastExit.inner # <<>>

\* the text eval_live_block puts before the last error
ExhaustionPrefix == "Live block failed after 3 attempts: "

\* C6: the Failure of an exhausted live block is the attempt count 3 and
\* then, unchanged, the text of the Failure of the last attempt; when that
\* was the exhaustion of a live block inside, the inner text is in the
\* outer one as a whole.
C6_ExhaustionText ==
    /\ Exited /\ ~LastExit.ok =>
          /\ LastExit.res.error = ExhaustionPrefix \o LastExit.cause.error
          /\ EndsWith(LastExit.res.error, LastExit.cause.error)
          /\ Contains(SubSeq(LastExit.res.error, 1, Len(ExhaustionPrefix)), "3")
          /\ LastExit.inner # <<>> /\ ~LastExit.inner[1].ok
             /\ LastExit.cause.error = LastExit.inner[1].error
             => /\ Contains(LastExit.res.error, LastExit.inner[1].error)
                /\ Contains(LastExit.res.error, ExhaustionPrefix \o ExhaustionPrefix)
    /\ Finished /\ program = WithLive(CaseNested) =>
          Final.res = Err(ExhaustionPrefix \o ExhaustionPrefix
                          \o "ASSERTION ERROR: x\n  - Condition evaluated to: false")

C6_Witness ==
    /\ Finished /\ program = WithLive(CaseNested)
    /\ Exited /\ ~LastExit.ok /\ LastExit.depth = 1
    /\ LastExit.inner # <<>> /\ LastExit.cause = LastExit.inner[1]

\* an RResult that is Ok(Value::Return(..))
IsReturn(res) == res.ok /\ res.value.t = "Return"

\* a live block whose body returned a Return marker returns it as it is,
\* after one evaluation of the body; the programs show what follows
C7_Inv ==
    /\ Exited /\ IsReturn(LastExit.cause) =>
          /\ LastExit.res = LastExit.cause
          /\ LastExit.attempts = 1 /\ LastExit.retry_count = 0
    /\ Finished /\ program = WithLive(CaseReturn) =>
          /\ Final.res = Ok(ValueInt(5))
          /\ get(Final.env, "z") = <<>>
          /\ hist.body_evals = <<1>> /\ hist.restores = 0
    /\ Finished /\ program = ProgReturnInFn(7) =>
          get(Final.env, "r") = <<ValueInt(7)>>

\* a Return marker that comes back to a live block or to a sequence of
\* statements ends it: no retry, no next statement
C7_Step ==
    ctl.mode = "ret" /\ IsReturn(ctl.res) /\ kont # <<>>
    /\ Head(kont).k \in {"LiveBlock", "Block", "Program"}
    => /\ kont' = Tail(kont)
       /\ ctl' = IF Head(kont).k = "Program" THEN Ret(Ok(ctl.res.value.v)) ELSE ctl

\* C7: a return statement in the body of a live block is a success of the
\* live block: no retry, the body evaluated once, the result the Return
\* marker with the returned value, so that the statements after the live
\* block in the enclosing sequence are not evaluated.
C7_ReturnInLiveBlock == []C7_Inv /\ [][C7_Step]_vars

C7_Witness ==
    /\ Finished /\ program = ProgReturnInFn(7)
    /\ Exited /\ LastExit.res = Ok(ValueReturn(ValueInt(7)))
    /\ get(Final.env, "r") = <<ValueInt(7)>>

\* a Failure that comes back is handed on unchanged by everything but a
\* live block, which retries or fails itself, down to the driver
C8_Step ==
    ctl.mode = "ret" /\ ~ctl.res.ok =>
        \/ /\ kont # <<>> /\ Head(kont).k # "LiveBlock"
           /\ ctl' = ctl /\ kont' = Tail(kont)
        \/ /\ kont # <<>> /\ Head(kont).k = "LiveBlock"
           /\ \/ ctl' = EvalOf(Head(kont).body) /\ Len(kont') = Len(kont)
              \/ ctl'.mode = "ret" /\ ~ctl'.res.ok /\ kont' = Tail(kont)
        \/ /\ kont = <<>>
           /\ ctl' = Idle
           /\ output' = [kind |-> "error", error |-> ctl.res.error]

\* a Failure with no live block around it: nothing is evaluated any more
C8_NoLater ==
    ctl.mode = "ret" /\ ~ctl.res.ok /\ LiveFrames(kont) = <<>> =>
        /\ ctl'.mode # "eval"
        /\ kont # <<>> =>
              envs' = envs \/ (Head(kont).k = "ApplyFunction" /\ envs' = Tail(envs))
        /\ ctl'.mode = "ret" => ctl' = ctl

C8_Inv ==
    /\ Finished /\ ~Final.res.ok =>
          output = [kind |-> "error", error |-> Final.res.error]
    /\ Finished /\ program = ProgFailOutside =>
          /\ Final.res = Err("ASSERTION ERROR: bad\n  - Condition evaluated to: false")
          /\ driver = "file" => get(Final.env, "b") = <<>>

\* C8: a Failure of a statement outside every live block is the result of
\* the Program, unchanged, and no later statement is evaluated; nothing but
\* the retry of a live block turns a Failure into something else.
C8_FailurePropagates == []C8_Inv /\ [][C8_Step /\ C8_NoLater]_vars

C8_Witness ==
    /\ driver = "file" /\ Finished /\ program = ProgFailOutside /\ ~Exited
    /\ output = [kind |-> "error",
                 error |-> "ASSERTION ERROR: bad\n  - Condition evaluated to: false"]
    /\ get(Final.env, "a") = <<ValueInt(1)>> /\ get(Final.env, "b") = <<>>

\* the text of an evaluated message in the Failure of an assert
MessageText(value) == IF value.t = "String" THEN value.s ELSE Display(value)

\* a Failure with the text of the condition's value in it
FailureWith(c, condition_value) ==
    c.mode = "ret" /\ ~c.res.ok /\ Contains(c.res.error, Display(condition_value))

\* the condition came back truthy: Void, and the message is not evaluated
C9_Truthy ==
    Returned("AssertCondition") /\ ctl.res.ok /\ is_truthy(ctl.res.value)
    => ctl' = Ret(Ok(ValueVoid)) /\ kont' = Tail(kont)

\* not truthy and no message: the default text and the condition's value
C9_Default ==
    Returned("AssertCondition") /\ ctl.res.ok /\ ~is_truthy(ctl.res.value)
    /\ Head(kont).message = <<>>
    => /\ FailureWith(ctl', ctl.res.value)
       /\ Contains(ctl'.res.error, "Assertion failed")
       /\ kont' = Tail(kont)

\* not truthy and a message: the message is evaluated next
C9_Message ==
    Returned("AssertCondition") /\ ctl.res.ok /\ ~is_truthy(ctl.res.value)
    /\ Head(kont).message # <<>>
    => /\ ctl' = EvalOf(Head(kont).message[1])
       /\ Head(kont').k = "AssertMessage"
       /\ Head(kont').condition_value = ctl.res.value

\* the message was evaluated: its text and the condition's value
C9_MessageEvaluated ==
    Returned("AssertMessage") /\ ctl.res.ok
    => /\ FailureWith(ctl', Head(kont).condition_value)
       /\ Contains(ctl'.res.error, MessageText(ctl.res.value))
       /\ kont' = Tail(kont)

C10_Rejected ==
    ctl.mode = "idle" /\ inputs' = inputs + 1 /\ type_check'
    /\ ~check_program(program').ok
    => /\ ctl' = Idle /\ kont' = <<>>
       /\ envs' = envs
       /\ hist' = HistInit
       /\ output'.kind \in {"error", "type_error"}
       /\ EndsWith(output'.error, check_program(program').error)

\* whatever is being evaluated passed the check, or no check was asked for
C10_Checked ==
    ctl.mode \in {"eval", "ret"} => ~type_check \/ check_program(program).ok

\* C10: with type checking requested and an error from the Type Checker, the
\* program is not evaluated at all: no statement runs, the environment of
\* the interpreter is unchanged, the caller gets the type error; evaluation
\* happens only after a successful check or when none was requested.
C10_TypeCheckGate == []C10_Checked /\ [][C10_Rejected]_vars

\* the REPL, n bound by an earlier line, then a line the checker rejects
C10_Witness ==
    /\ driver = "repl" /\ type_check /\ ctl.mode = "idle"
    /\ program = ProgIllTyped
    /\ output = [kind |-> "type_error",
                 error |-> "If condition must be a boolean, got int"]
    /\ get(envs[1], "n") = <<ValueInt(1)>>
    /\ get(envs[1], "k") = <<>>
    /\ hist = HistInit

\* the names the programs bind
Names == {"a", "b", "c", "d", "m", "n", "r", "x", "y", "result"}

\* C11 as stated: a block (an if branch, the attempt of a live block) is
\* evaluated in a child environment, so that a let in the block on a name
\* bound outside shadows it: after the block the outer binding has the value
\* it had before. (eval_block_statement evaluates the statements on self.env
\* itself, and the let of the block rebinds the outer name.)
C11_BlockScope ==
    /\ Exited /\ LastExit.ok =>
          \A name \in Names :
              get(LastExit.entry_env, name) # <<>> =>
                  get(LastExit.env, name) = get(LastExit.entry_env, name)
    /\ Finished /\ program \in {Direct(CaseShadow), WithLive(CaseShadow)} =>
          /\ Final.res = Ok(ValueInt(1))
          /\ get(Final.env, "a") = <<ValueInt(1)>>

\* what the code does with `let a = 1; if true { let a = 2; } a`
C11_Leak ==
    /\ driver = "file" /\ Finished /\ program = Direct(CaseShadow)
    /\ Final.res = Ok(ValueInt(2))
    /\ get(Final.env, "a") = <<ValueInt(2)>>

\* the function value that a step is about to apply, if it has one
Callee ==
    IF Returned("CallFunction") /\ ctl.res.ok THEN <<ctl.res.value>>
    ELSE IF Returned("CallArguments") THEN <<Head(kont).func>>
    ELSE <<>>

\* the Interpreter made for a call has an environment enclosed in the
\* captured one, and nothing is visible in it but the parameters that got an
\* argument and what the captured environment binds
C12_Step ==
    ctl.mode = "ret" /\ Len(envs') = Len(envs) + 1 =>
        /\ Callee # <<>> /\ Callee[1].t = "Function"
        /\ Tail(envs') = envs
        /\ Head(envs').outer = <<Callee[1].env>>
        /\ \A name \in Names :
              get(Head(envs'), name) # <<>> =>
                  \/ \E i \in 1..Len(Callee[1].parameters) :
                        Callee[1].parameters[i][2] = name
                  \/ get(Head(envs'), name) = get(Callee[1].env, name)

C12_Inv ==
    /\ Finished /\ program = ProgBothSites => get(Final.env, "r") = <<ValueInt(1)>>
    /\ Finished /\ program = ProgRebound => get(Final.env, "r") = <<ValueInt(1)>>
    /\ Finished /\ program = ProgCallSiteOnly =>
          Final.res = Err("Identifier not found: y")

\* C12: the body of a called function is evaluated in a new environment
\* whose parent is the environment captured at the definition, not the one
\* of the call site: a name bound only at the call site is not visible in
\* the body, and a name bound at both sites has its definition-site value.
C12_DefinitionSiteScope == []C12_Inv /\ [][C12_Step]_vars

\* g(5) has x = 5 in its environment when it calls f, and f reads x = 1
C12_Witness ==
    /\ driver = "file" /\ Finished /\ program = ProgBothSites
    /\ Final.res.ok
    /\ get(Final.env, "x") = <<ValueInt(1)>>
    /\ get(Final.env, "r") = <<ValueInt(1)>>

\* the arguments of the call a step is about to make
CallArgs ==
    IF Returned("CallArguments") /\ ctl.res.ok
    THEN Append(Head(kont).result, ctl.res.value)
    ELSE <<>>

\* the last argument of a call to a function came back (or the function, of
\* a call without arguments)
CallReady ==
    /\ Callee # <<>> /\ Callee[1].t = "Function"
    /\ \/ Returned("CallFunction") /\ Head(kont).arguments = <<>>
       \/ /\ Returned("CallArguments") /\ ctl.res.ok
          /\ Len(CallArgs) = Len(Head(kont).arguments)

\* a call with fewer arguments than parameters is made all the same, and
\* the store of the callee's environment has no entry for a parameter
\* without an argument
C13_Call ==
    CallReady /\ Len(CallArgs) < Len(Callee[1].parameters) =>
        /\ ctl' = EvalOf(Callee[1].body)
        /\ Len(envs') = Len(envs) + 1
        /\ \A i \in 1..Len(Callee[1].parameters) :
              Callee[1].parameters[i][2] \in DOMAIN Head(envs').store
              <=> i <= Len(CallArgs)

\* C13 as stated: a call with fewer arguments than parameters is not
\* rejected at call time, the parameters without an argument stay unbound
\* in the callee's environment, and a reference to such a parameter in the
\* body fails with "Identifier not found".
C13_AsStated ==
    /\ [][C13_Call]_vars
    /\ [](Finished /\ program \in {ProgMissingArgument("b"), ProgMissingArgumentOuter}
          => Final.res = Err("Identifier not found: b"))

\* C13: a call with fewer arguments than parameters is not rejected at call
\* time, and the parameters without an argument stay unbound in the
\* callee's environment; a reference to such a parameter in the body fails
\* with "Identifier not found" when the environment captured by the function
\* does not bind the name, and yields the captured binding when it does.
C13_MissingArguments ==
    /\ [][C13_Call]_vars
    /\ [](/\ Finished /\ program = ProgMissingArgument("b") =>
                Final.res = Err("Identifier not found: b")
          /\ Finished /\ program = ProgMissingArgument("a") =>
                Final.res.ok /\ get(Final.env, "r") = <<ValueInt(1)>>
          /\ Finished /\ program = ProgMissingArgumentOuter =>
                Final.res.ok /\ get(Final.env, "r") = <<ValueInt(9)>>)

\* f(1) failed on b in one run, and read the b of the definition site in the next
C13_Witness ==
    /\ driver = "file" /\ Finished /\ prev # <<>> /\ prev[1].hist.final # <<>>
    /\ prev[1].program = ProgMissingArgument("b")
    /\ prev[1].hist.final[1].res = Err("Identifier not found: b")
    /\ program = ProgMissingArgumentOuter
    /\ get(Final.env, "r") = <<ValueInt(9)>>

(***************************************************************************)
(* C14..C16 are about eval_infix_expression and are stated on SpecInfix.   *)
(***************************************************************************)
\* the line of SpecInfix and its operands
InfixOperator == program.statements[1].expr.operator

InfixLeft == self_env.store["a"]

InfixRight == self_env.store["b"]

IsNumber(value) == value.t \in {"Int", "Float"}

IsZero(value) ==
    \/ value.t = "Int" /\ value.i = 0
    \/ value.t = "Float" /\ value.num = 0

\* a line `a / b` with numbers a and b, b zero
ZeroDivisor ==
    InfixOperator = "/" /\ IsNumber(InfixLeft) /\ IsNumber(InfixRight) /\ IsZero(InfixRight)

\* fn divide(a: i32, b: i32) -> Result<i32, String> (nolang/src/main.rs 13-19)
divide(a, b) ==
    IF b = 0 THEN {Err("Error: Division by zero is not allowed.")}
    ELSE Divide(a, b)

\* C14: `a / b` with b zero, for Int/Int, Float/Float and mixed operands and
\* every dividend, ends in the Failure "Division by zero": the process never
\* panics on it and no value comes out.  divide of nolang fails on a zero
\* divisor as well.
C14_DivisionByZero ==
    ZeroDivisor =>
        /\ ctl.mode # "abort"
        /\ Finished => Final.res = Err("Division by zero")
        /\ InfixLeft.t = "Int" =>
               \A outcome \in divide(InfixLeft.i, 0) :
                   ~IsPanic(outcome) /\ ~outcome.ok
                       /\ Contains(outcome.error, "Division by zero")

\* C14 witness: the minimum Int divided by the Float zero has failed
C14_Witness ==
    /\ ZeroDivisor /\ Finished
    /\ InfixLeft = ValueInt(MinInt) /\ InfixRight = ValueFloat(0, 1)
    /\ Final.res = Err("Division by zero")

\* + - * /
ArithmeticOperators == {"+", "-", "*", "/"}

\* C15: `a op b` for Int a and b and op among + - * / yields an Int value,
\* except `/` by zero, which fails, pairs whose exact result is outside the
\* range of an Int included; with a Float among two numbers the value is a
\* Float.  It does not hold: the minimum Int divided by -1 panics.
C15_IntClosed ==
    InfixOperator \in ArithmeticOperators /\ IsNumber(InfixLeft) /\ IsNumber(InfixRight) =>
        IF InfixLeft.t = "Int" /\ InfixRight.t = "Int"
        THEN /\ ctl.mode # "abort"
             /\ Finished =>
                    IF InfixOperator = "/" /\ InfixRight.i = 0 THEN ~Final.res.ok
                    ELSE Final.res.ok /\ Final.res.value.t = "Int"
        ELSE Finished /\ ~ZeroDivisor => Final.res.ok /\ Final.res.value.t = "Float"

\* C15, the state that refutes it: the minimum Int divided by -1 has panicked
C15_DivideOverflow ==
    /\ ctl = Abort("attempt to divide with overflow")
    /\ InfixOperator = "/" /\ InfixLeft = ValueInt(MinInt) /\ InfixRight = ValueInt(-1)

\* the Type of an Int, Float, String or Bool value
TypeOf(value) == [t |-> value.t]

\* check_node on `a op b` with a and b declared at the types of their values
InfixChecked ==
    check_node(program.statements[1].expr,
               set(set(TypeChecker_new, "a", TypeOf(InfixLeft)), "b", TypeOf(InfixRight)))

\* C16: for every operator and every pair of operand types among Int, Float,
\* String and Bool, the type checker accepts `a op b` exactly when the
\* evaluator evaluates it without a Failure (division by zero aside), and
\* the type it returns is the type of the value.  It does not hold.
C16_CheckerAgrees ==
    Finished /\ ~ZeroDivisor =>
        /\ InfixChecked.ok <=> Final.res.ok
        /\ InfixChecked.ok /\ Final.res.ok => InfixChecked.typ = TypeOf(Final.res.value)

\* C16, a state that refutes it: "s" + 1 is accepted at type String by the
\* checker and fails in the evaluator
C16_Disagree ==
    /\ Finished /\ InfixOperator = "+"
    /\ InfixLeft = ValueString("s") /\ InfixRight = ValueInt(1)
    /\ InfixChecked.ok /\ InfixChecked.typ = TypeString
    /\ Final.res = Err("Type mismatch: \"s\" + 1")

(***************************************************************************)
(* C17 is about check_node and is stated on SpecCheck.                     *)
(***************************************************************************)
\* execute_file stopped on this error of the type checker
TypeRejected(error) ==
    /\ ctl.mode = "idle"
    /\ output = [kind |-> "error", error |-> "Type check failed: " \o error]

\* the check passed and the program went on to the interpreter
TypeAccepted == ctl.mode \in {"eval", "ret"} \/ output = [kind |-> "ok"]

\* the type name of parameter i of the function declared by statement s
ParameterType(s, i) == program.statements[s].parameters[i][1]

\* a type as the checker's messages write it
TypeText(name) == IF name = "" THEN "any" ELSE name

\* neither type is Any and they differ
Differ(t, e) == t # e /\ t # "" /\ e # ""

\* if x { y } else { z } over parameters of the types c, t, e
C17_If ==
    program \in IfPrograms =>
        LET c == ParameterType(1, 1)
            t == ParameterType(1, 2)
            e == ParameterType(1, 3)
        IN  IF c \notin {"bool", ""}
            THEN TypeRejected("If condition must be a boolean, got " \o TypeText(c))
            ELSE IF Differ(t, e)
            THEN TypeRejected("If branches have incompatible types: " \o TypeText(t)
                              \o " and " \o TypeText(e))
            ELSE TypeAccepted

\* f(a, ..) for a function f with one parameter
C17_Call ==
    program \in CallPrograms =>
        LET p_type == ParameterType(1, 1)
            a_type == ParameterType(2, 1)
            n == Len(program.statements[2].body.statements[1].expr.arguments)
        IN  IF n # 1
            THEN TypeRejected("Expected 1 arguments, got " \o ToString(n))
            ELSE IF Differ(p_type, a_type)
            THEN TypeRejected("Type mismatch in argument 1: expected " \o TypeText(p_type)
                              \o ", got " \o TypeText(a_type))
            ELSE TypeAccepted

\* f(a, ..) for a parameter f of type Any, with any arguments: accepted, and
\* the type of the call, which is the return type of g, is Any
C17_AnyCall ==
    program \in ParameterCallPrograms /\ ParameterType(1, 1) = "" =>
        /\ TypeAccepted
        /\ get(check_program(program).env, "g")
              = <<TypeFunction(<<TypeAny, parse_type_name(ParameterType(1, 2)).typ>>,
                               TypeAny)>>

\* C17: the type checker rejects an if whose condition is neither Bool nor
\* Any, an if whose branch types differ when neither is Any, and a call of
\* a function with the wrong number of arguments or with an argument whose
\* type differs from the parameter's when neither is Any; it accepts the
\* same programs when the offending type is Any, and accepts every call of
\* a value of type Any, at type Any.
C17_IfAndCallRules ==
    type_check /\ inputs > 0 => C17_If /\ C17_Call /\ C17_AnyCall

\* C17 witness: an if with an Any condition and branches Int and Any was
\* accepted, after the same if with a String for the Any branch was rejected
C17_Witness ==
    /\ type_check /\ program = ProgIfTyped("", "int", "") /\ output = [kind |-> "ok"]
    /\ prev # <<>> /\ prev[1].type_check /\ prev[1].program = ProgIfTyped("", "int", "string")
    /\ prev[1].output = [kind |-> "error", error |->
          "Type check failed: If branches have incompatible types: int and string"]

(***************************************************************************)
(* C18..C20 are about the parser and are stated on SpecParser.             *)
(***************************************************************************)
\* parse_program has returned
ParseDone == parser.pc = "done"

\* the errors and the statements that the result of parse_program carries:
\* an Err has no AST, an Ok no errors
ResultErrors == IF parser.result[1].ok THEN <<>> ELSE parser.result[1].error

ResultStatements ==
    IF parser.result[1].ok THEN parser.result[1].value.statements ELSE <<>>

\* one or two malformed statements
MalformedPrefixes ==
    {<<m>> : m \in MalformedStatements}
        \cup {<<m1, m2>> : m1 \in MalformedStatements, m2 \in MalformedStatements}

Source(statements) ==
    IF Len(statements) = 1 THEN statements[1] ELSE statements[1] \o statements[2]

\* the Node of a valid statement: what parse_statement makes of it alone
ValidNode(statement) == parse_statement(Parser_new(statement)).res.value

\* C18: parsing malformed statements followed by a valid statement reports
\* one error per malformed statement and returns a Program that contains
\* the valid statement: the result carries the errors and the AST.  It does
\* not hold: with an error the result is the error list alone.
C18_BestEffortAst ==
    ParseDone =>
        \A malformed \in MalformedPrefixes, valid \in ValidStatements :
            parser.p.tokens = Source(malformed) \o valid =>
                /\ Len(ResultErrors) = Len(malformed)
                /\ \E i \in 1..Len(ResultStatements) :
                      ResultStatements[i] = ValidNode(valid)

\* C18, a state that refutes it: `fn ( let x = 1 ;` gave the one error and
\* no AST, and the `let` was not parsed as a statement at all: what
\* parse_program had in `program` is the expression statement `x`
C18_AstDropped ==
    /\ ParseDone /\ parser.p.tokens = SourceFnNoName \o SourceLet
    /\ parser.result = <<Err(<<ParseError(
           "Expected identifier after 'fn', found LeftParen", Tok("LeftParen"))>>)>>
    /\ parser.program = <<ExpressionStatement(Identifier("x"))>>

\* the last synchronize went past the token it began at, and stopped just
\* after the first `;` or at the first statement keyword after that token,
\* or at Eof
C19_Stop ==
    parser.stopped # <<>> =>
        LET from == parser.stopped[1].from
            at == parser.stopped[1].at
            tokens == parser.p.tokens
        IN  /\ from <= Len(tokens) => at > from
            /\ \A j \in (from + 1)..(at - 1) :
                  /\ tokens[j].t \notin StatementKeywords
                  /\ tokens[j].t = "Semicolon" => j = at - 1
            /\ \/ at > Len(tokens)
               \/ tokens[at].t \in StatementKeywords
               \/ at - 1 > from /\ tokens[at - 1].t = "Semicolon"

\* the parse_statement after a synchronize begins at the token where the
\* synchronize stopped
C19_Resume ==
    parser.pc = "statement" /\ parser.stopped # <<>> =>
        parser.p.position = parser.stopped[1].at

\* C19: after a statement-level error, synchronize goes past the current
\* token and stops just after a consumed `;` or at the first token that
\* starts a statement, without consuming it, and the parser resumes with
\* the statement that begins at that token.  It does not hold: the token at
\* which synchronize stopped is skipped before the next parse_statement.
C19_ResumeAtStop == C19_Stop /\ C19_Resume

\* C19, a state that refutes it: in `fn ( let x = 1 ;` synchronize stopped at
\* `let`, the third token, and the next parse_statement began at `x`
C19_KeywordSkipped ==
    /\ parser.p.tokens = SourceFnNoName \o SourceLet
    /\ parser.pc = "statement"
    /\ parser.stopped = <<[from |-> 2, at |-> 3]>>
    /\ parser.p.position = 4 /\ current_token(parser.p) = TIdentifier("x")

\* C20: the parser rejects a function declaration with an empty parameter
\* list: every function it accepts declares at least one (type, name)
\* pair.  It does not hold, neither for parser.rs nor for main.rs.
C20_NonEmptyParameters ==
    /\ \A i \in 1..Len(parser.program) :
          parser.program[i].node = "Function" => parser.program[i].parameters # <<>>
    /\ parser.main # <<>> => parser.main[1] # Ok(<<>>)

\* C20, a state that refutes it: `fn f ( ) { }` parsed without an error to a
\* function with no parameters, and main.rs's parse_function_parameters
\* returned the empty list for it
C20_EmptyAccepted ==
    /\ ParseDone /\ parser.p.tokens = SourceFnNoParameters
    /\ parser.result = <<Ok(Program(<<Function("f", <<>>, Block(<<>>))>>))>>
    /\ parser.main = <<Ok(<<>>)>>

(***************************************************************************)
(* The property of the Lexer on its own, on SpecLexer.                     *)
(***************************************************************************)
\* C21: once next_token has returned Eof, every later call on the same
\* Lexer returns Eof again: the last call did not panic and its Token is Eof
\* whenever a call before it returned Eof.
C21_EofForEver ==
    (lexer.pc # "new" /\ lexer.eof_before) =>
        lexer.pc = "ready" /\ lexer.last = <<Eof>>

\* C21: a text with '\0' in it: the call after the one that returned Eof
\* returns the Token behind the '\0'
C21_TokenAfterEof ==
    /\ lexer.pc = "ready" /\ lexer.eof_before
    /\ lexer.l.input = <<"1", NUL, "1">>
    /\ lexer.last = <<TIntLiteral(1)>>
    /\ lexer.l.read_position <= Len(lexer.l.input) + 1

(***************************************************************************)
(* The property of parse_expression, on SpecExpression.                    *)
(***************************************************************************)
\* the binding power of an operator token
Rank(operator) == precedence_of(Tok(operator))

\* the tree the binding powers give for an expression source
Grouped(e) ==
    LET a == Identifier("a")
        b == Identifier("b")
        c == Identifier("c")
        f == Identifier("f")
        o1 == OperatorText[e.op1]
        o2 == OperatorText[e.op2]
        left == InfixExpression(InfixExpression(a, o1, b), o2, c)
        right == InfixExpression(a, o1, InfixExpression(b, o2, c))
    IN  CASE e.shape = "flat" -> IF Rank(e.op1) >= Rank(e.op2) THEN left ELSE right
          [] e.shape = "call_right" -> InfixExpression(a, o1, CallExpression(f, <<b>>))
          [] e.shape = "call_left" -> InfixExpression(CallExpression(f, <<a>>), o1, b)
          [] e.shape = "call_inner" ->
                InfixExpression(a, o1, CallExpression(f, <<InfixExpression(b, o2, c)>>))
          [] e.shape = "group_left" -> left
          [] e.shape = "group_right" -> right
          [] e.shape = "group_call" ->
                InfixExpression(InfixExpression(a, o1, CallExpression(f, <<b>>)), o2, c)

ExpressionParsed == parser.pc \in {"parsed", "done"} /\ "source" \in DOMAIN parser

\* C24: parse_expression groups by binding power: of two operators the one
\* of higher rank binds first, equal ranks group to the left, a call binds
\* tighter than any operator, and a parenthesized sub-expression is one
\* operand whatever the operators in it.
C24_Grouping ==
    ExpressionParsed =>
        /\ ~Panicked(parser.result[1].p)
        /\ parser.result[1].node = <<Grouped(parser.source)>>

\* C24: ( a + b ) * c : parse_expression panics at the ')' it looks for in
\* current_token
C24_GroupPanics ==
    /\ ExpressionParsed
    /\ parser.source = [shape |-> "group_left", op1 |-> "Plus", op2 |-> "Multiply"]
    /\ parser.result[1].p.panicked = <<"Expected ')'">>

(***************************************************************************)
(* The properties of the run of a source, on SpecSource.                   *)
(***************************************************************************)
\* the Program parse_program returns for a source
ProgramOf(source) == main_parse_program(source).node[1]

\* the driver is back from the run of the program of this source
Ended(source) == ctl.mode = "idle" /\ hist.final # <<>> /\ program = ProgramOf(source)

\* C22: `static let x = 0;` in the body of f makes a binding that is
\* evaluated once and persists: the run of the source succeeds, the first
\* call f(0) counts x up to 1 and the second call sees that change and
\* returns 2.
C22_StaticPersists ==
    \A source \in {SourceStatic, SourceStaticBound} :
        Ended(source) =>
            /\ Final.res.ok
            /\ get(Final.env, "r") = <<ValueInt(1)>>
            /\ get(Final.env, "s") = <<ValueInt(2)>>

\* C22, a state that refutes it: `static` is an Identifier to the Lexer, so
\* the body of f begins with the expression statement `static`, and the
\* first call fails on it
C22_StaticNotFound ==
    /\ Ended(SourceStatic)
    /\ Keyword("static") = TIdentifier("static")
    /\ ProgramOf(SourceStatic).statements[1].body.statements[1]
           = ExpressionStatement(Identifier("static"))
    /\ Final.res = Err("Identifier not found: static")
    /\ get(Final.env, "r") = <<>>

\* a Return marker came back to the evaluator on top of the stack
ReturnArrives == ctl.mode = "ret" /\ IsReturn(ctl.res) /\ kont # <<>>

\* the evaluator a Return marker comes back to is a sequence of statements,
\* a live block or a call; it ends there and then, with no further
\* statement, and hands the marker on as it is unless it is one of the
\* unwrappers, which hand on the value in it
ReturnStep(unwrappers) ==
    ReturnArrives =>
        /\ Head(kont).k \in {"Block", "LiveBlock", "Program", "ApplyFunction"}
        /\ kont' = Tail(kont)
        /\ ctl' = IF Head(kont).k \in unwrappers THEN Ret(Ok(ctl.res.value.v)) ELSE ctl

\* the run of SourceReturn: f(5) is the 5 returned in the `if` in the live
\* block, the program's value is the r returned at top level, and no
\* statement after a return was evaluated
ReturnRun ==
    Ended(SourceReturn) /\ ~type_check =>
        /\ Final.res = Ok(ValueInt(5))
        /\ get(Final.env, "r") = <<ValueInt(5)>>
        /\ get(Final.env, "z") = <<>>
        /\ hist.body_evals = <<1>> /\ hist.restores = 0

\* C23 as stated: a Return marker ends the sequence it comes back to and is
\* passed outward unchanged by every evaluator but the function call:
\* Program, Block and live block hand it on as it is.
C23_AsStated == [][ReturnStep({"ApplyFunction"})]_vars

\* C23, amended: a Return marker ends the sequence it comes back to; Block
\* and live block pass it outward unchanged, and it is unwrapped into the
\* plain Value at a function-call boundary and by eval_program at top level.
C23_ReturnPropagates == []ReturnRun /\ [][ReturnStep({"ApplyFunction", "Program"})]_vars

\* C23: inside the call f(5) the Return marker is back in the Block of the
\* `if`, which has the statement `let v = 1;` left
C23_Witness ==
    /\ ReturnArrives /\ program = ProgramOf(SourceReturn) /\ Len(envs) = 2
    /\ ctl.res = Ok(ValueReturn(ValueInt(5)))
    /\ Head(kont).k = "Block" /\ Head(kont).i = 1 /\ Len(Head(kont).statements) = 2

\* the RResult of a body is back at its live block, after a retry
RetryReturned == Returned("LiveBlock") /\ Head(kont).attempts > 1

\* eval_live_block starts the body again
Retries == Returned("LiveBlock") /\ kont' # <<>> /\ Len(kont') = Len(kont)

\* every attempt after the first fails, with the Err of the first attempt;
\* a live block returns Ok after one attempt or Err after three
SameFailure ==
    /\ RetryReturned =>
          /\ ~ctl.res.ok
          /\ Head(kont).first_error = <<ctl.res>>
          /\ self_env = Head(kont).first_env[1]
    /\ Exited =>
          \/ LastExit.ok /\ LastExit.attempts = 1
          \/ /\ ~LastExit.ok /\ LastExit.attempts = MAX_RETRIES
             /\ ~LastExit.cause.ok
             /\ LastExit.res = Err("Live block failed after 3 attempts: "
                                   \o LastExit.cause.error)

\* every retry starts on the body of the first attempt, from self.env as it
\* was at the call of eval_live_block
SameStart ==
    Retries =>
        /\ ctl' = EvalOf(Head(kont).body)
        /\ envs'[1] = Head(kont).entry_env
        /\ Head(kont').body = Head(kont).body
        /\ Head(kont').first_error # <<>>

\* C25: the body of a live block is evaluated on the same body and from the
\* same restored environment at every attempt, so every retry fails with
\* the Failure of the first attempt: a live block succeeds on attempt 1 or
\* gives up after 3 identical failures, and never succeeds on attempt 2 or 3.
C25_IdenticalRetries == []SameFailure /\ [][SameStart]_vars

\* C25: the third attempt of `live { let n = n + 1; let q = 6 / n; }`, entered
\* with n = -1, has failed as the first: n is 0 again and the division fails
C25_Witness ==
    /\ RetryReturned /\ Head(kont).attempts = 3
    /\ program = ProgramOf(SourceHeal(1))
    /\ ctl.res = Err("Division by zero")
    /\ get(self_env, "n") = <<ValueInt(0)>>
    /\ get(Head(kont).entry_env, "n") = <<ValueInt(0 - 1)>>

\* the run of SourceFrame: both calls f(1) give 1, the caller's c is still 0,
\* the g of the body is unknown to the caller, and the Environment f
\* captured is as it was at the definition: c = 0 and nothing else
FrameRun ==
    Ended(SourceFrame) =>
        /\ Final.res.ok
        /\ get(Final.env, "r") = <<ValueInt(1)>>
        /\ get(Final.env, "s") = get(Final.env, "r")
        /\ get(Final.env, "c") = <<ValueInt(0)>>
        /\ get(Final.env, "g") = <<>> /\ get(Final.env, "a") = <<>>
        /\ get(Final.env, "f")[1].env = set(Environment_new, "c", ValueInt(0))

\* when apply_function returns, with a value or an Err, self.env of the
\* caller is what it was when the evaluation of the call began
CallerUnchanged == Returned("ApplyFunction") => envs'[1] = Head(kont).caller_env

\* C26: a function call leaves the caller's environment as it was and the
\* function's captured environment as it was: what let and fn bind in the
\* body is seen neither by the caller afterwards nor by the next call, so
\* two calls with equal arguments give equal results.
C26_CallFrame == []FrameRun /\ [][CallerUnchanged]_vars

\* C26: the second call f(1) of SourceFrame is about to return, its own
\* Environment binding c = 1 and g, the caller's c = 0 and r = 1
C26_Witness ==
    /\ Returned("ApplyFunction") /\ program = ProgramOf(SourceFrame)
    /\ ctl.res = Ok(ValueReturn(ValueInt(1)))
    /\ get(self_env, "g") # <<>> /\ self_env.store["c"] = ValueInt(1)
    /\ get(envs[2], "r") = <<ValueInt(1)>> /\ get(envs[2], "c") = <<ValueInt(0)>>
    /\ get(envs[2], "g") = <<>>

\* the Function node under evaluation binds its name to a function value
\* whose Environment is self.env as it is before the binding: in it the
\* name is unbound or bound to what it was bound to before
CapturedBefore ==
    Evaluating("Function") =>
        /\ get(envs'[1], ctl.node.name) # <<>>
        /\ get(envs'[1], ctl.node.name)[1].env = self_env
        /\ get(get(envs'[1], ctl.node.name)[1].env, ctl.node.name)
               = get(self_env, ctl.node.name)

\* the runs of the sources with a function that calls itself, that calls a
\* function defined after it, and that calls the function its name was bound
\* to before
RecursionRuns ==
    /\ Ended(SourceRecursion) =>
          /\ Final.res = Err("Identifier not found: f")
          /\ get(Final.env, "f") # <<>> /\ get(Final.env, "r") = <<>>
    /\ Ended(SourceForward) =>
          /\ Final.res = Err("Identifier not found: g")
          /\ get(Final.env, "g") # <<>> /\ get(Final.env, "r") = <<>>
    /\ Ended(SourceRedefined) =>
          Final.res.ok /\ get(Final.env, "r") = <<ValueInt(4)>>

\* C27: a function value captures the environment as it is before the
\* function's name is bound, so a body that refers to its own name or to a
\* function defined later fails with "Identifier not found", unless the name
\* had a binding at the definition, which is then the one the body sees.
C27_NoRecursion == []RecursionRuns /\ [][CapturedBefore]_vars

\* C27: in the call f(1) of SourceRecursion the body is about to look up f:
\* the caller binds f, the callee's Environment does not
C27_Witness ==
    /\ Evaluating("Identifier") /\ ctl.node.name = "f" /\ Len(envs) = 2
    /\ program = ProgramOf(SourceRecursion)
    /\ get(envs[2], "f") # <<>> /\ get(self_env, "f") = <<>>
    /\ get(self_env, "n") = <<ValueInt(1)>>

RECURSIVE EnvHoldsReturn(_)

\* the value is a Return marker, or a function whose Environment holds one
ValueHoldsReturn(value) ==
    \/ value.t = "Return"
    \/ value.t = "Function" /\ EnvHoldsReturn(value.env)

\* some binding of the Environment, of one it is enclosed in or of one
\* captured by a function bound in them holds a Return marker
EnvHoldsReturn(env) ==
    \/ \E name \in DOMAIN env.store : ValueHoldsReturn(env.store[name])
    \/ env.outer # <<>> /\ EnvHoldsReturn(env.outer[1])

\* no Interpreter's Environment holds a Return marker, a marker wraps a
\* plain value, and a marker that came back is the RResult of a return
\* statement, a Block, an if statement or a live block: it is back at a
\* sequence of statements, a live block or apply_function, never at a let,
\* an operand, an argument or the driver
MarkerConfined ==
    /\ \A i \in 1..Len(envs) : ~EnvHoldsReturn(envs[i])
    /\ ctl.mode = "ret" /\ IsReturn(ctl.res) =>
          /\ ~ValueHoldsReturn(ctl.res.value.v)
          /\ kont # <<>>
          /\ Head(kont).k \in {"Block", "LiveBlock", "Program", "ApplyFunction"}

\* what eval_program and apply_function return is no Return marker
MarkerUnwrapped ==
    /\ Returned("ApplyFunction") => ~IsReturn(ctl'.res)
    /\ Returned("Program") /\ kont' = Tail(kont) => ~IsReturn(ctl'.res)

\* C28: on the programs the parser produces, no binding of an environment
\* ever holds a Return marker and neither eval_program nor apply_function
\* returns one: the marker is the result of a return statement, a Block, an
\* if statement or a live block only.
C28_MarkerConfined == []MarkerConfined /\ [][MarkerUnwrapped]_vars

\* C28: the call f(5) of SourceReturn, whose body ended with the marker
\* Return(5), has handed the plain 5 to `let r`
C28_Witness ==
    /\ Returned("LetStatement") /\ Head(kont).name = "r"
    /\ program = ProgramOf(SourceReturn) /\ Len(envs) = 1
    /\ ctl.res = Ok(ValueInt(5))

\* the sources with a live block in a live block
NestedSource == program \in {ProgramOf(SourceNested(0)), ProgramOf(SourceNested(2))}

\* the body of the outer live block failed after the live block in it had
\* returned Ok, and the outer block starts its body again
OuterRetries ==
    /\ Retries /\ Len(LiveFrames(kont)) = 1 /\ ~ctl.res.ok
    /\ Exited /\ LastExit.depth = 2 /\ LastExit.ok

\* the outer retry starts from the outer snapshot, in which nothing of what
\* the inner block bound is left
InnerDiscarded ==
    OuterRetries =>
        /\ envs'[1] = Head(kont).env_snapshot
        /\ envs'[1] = Head(kont).entry_env
        /\ NestedSource =>
              /\ get(LastExit.env, "i") = <<ValueInt(1)>>
              /\ get(self_env, "i") = <<ValueInt(1)>>
              /\ get(envs'[1], "i") = <<>>

\* every entry of the inner block starts at retry_count 0 with a snapshot of
\* self.env of that moment, which after an outer retry is the outer snapshot
InnerFresh ==
    /\ ctl.mode = "eval" /\ kont # <<>> /\ Head(kont).k = "LiveBlock"
    /\ Head(kont).attempts = 1 /\ Len(LiveFrames(kont)) = 2
    => /\ Head(kont).retry_count = 0
       /\ Head(kont).env_snapshot = self_env
       /\ Head(kont).first_error = <<>>
       /\ NestedSource => self_env = LiveAt(kont, 1).env_snapshot

\* the run of SourceNested(0): the outer body three times, the inner body
\* once in each of them, two restores
NestedRun ==
    Ended(SourceNested(0)) =>
        /\ hist.body_evals = <<3, 3>> /\ hist.restores = 2
        /\ Final.res = Err("Live block failed after 3 attempts: Division by zero")

\* C29: when the live block in the body of a live block succeeds and the
\* outer attempt fails afterwards, the outer retry restores the outer
\* snapshot and with it discards every binding the inner block made; the
\* inner block is then entered again with a fresh snapshot and a fresh
\* attempt counter.
C29_InnerDiscarded == [](InnerFresh /\ NestedRun) /\ [][InnerDiscarded]_vars

\* C29: the second attempt of the outer block of SourceNested(0) enters the
\* inner block again: its i = 1 of the first attempt is gone
C29_Witness ==
    /\ ctl.mode = "eval" /\ kont # <<>> /\ Head(kont).k = "LiveBlock"
    /\ program = ProgramOf(SourceNested(0))
    /\ Len(LiveFrames(kont)) = 2 /\ LiveAt(kont, 1).attempts = 2
    /\ Head(kont).attempts = 1 /\ Head(kont).retry_count = 0
    /\ Exited /\ LastExit.ok /\ get(LastExit.env, "i") = <<ValueInt(1)>>
    /\ get(self_env, "i") = <<>>

\* a Failure on its way out of a statement that is in no live block of the
\* running Interpreter changes no Environment: `?` hands it on as it is,
\* apply_function drops the callee's Interpreter, and the REPL keeps its own
FailureKeepsBindings ==
    /\ ctl.mode = "ret" /\ ~ctl.res.ok /\ kont # <<>>
       /\ Head(kont).k \notin {"LiveBlock", "ApplyFunction"}
       => envs' = envs /\ ctl' = ctl /\ kont' = Tail(kont)
    /\ ctl.mode = "ret" /\ ~ctl.res.ok /\ kont # <<>> /\ Head(kont).k = "ApplyFunction"
       => envs' = Tail(envs) /\ ctl' = ctl /\ kont' = Tail(kont)
    /\ driver = "repl" /\ ctl.mode \in {"ret", "idle"} /\ kont = <<>>
       => envs' = envs

\* the runs of `let a = 1; b; let c = 2;` and of the inputs that read a and c
NoRollbackRuns ==
    /\ Ended(SourceFails) =>
          /\ Final.res = Err("Identifier not found: b")
          /\ get(Final.env, "a") = <<ValueInt(1)>>
          /\ get(Final.env, "c") = <<>>
          /\ driver = "repl" => self_env = Final.env
    /\ driver = "repl" /\ Ended(SourceRead("a")) =>
          IF get(self_env, "a") # <<>>
          THEN Final.res = Ok(ValueInt(1)) /\ output = [kind |-> "value", text |-> "1"]
          ELSE Final.res = Err("Identifier not found: a")
    /\ driver = "repl" /\ Ended(SourceRead("c")) =>
          Final.res = Err("Identifier not found: c")

\* the Interpreter of the REPL never loses a binding: what a name is bound to
\* may change, by a let or a fn of a later input, but each name stays bound
\* from one input's end to the next
BindingsStay ==
    driver = "repl" /\ envs # <<>> /\ envs' # <<>> /\ Len(envs) = 1 /\ Len(envs') = 1
    /\ LiveFrames(kont) = <<>>
    => DOMAIN envs[1].store \subseteq DOMAIN envs'[1].store

\* C30: a statement that fails outside any live block rolls nothing back:
\* what the earlier statements of the program bound stays in the
\* interpreter's environment, and the next input of the REPL, evaluated on
\* the same Interpreter, sees it.
C30_NoRollback == []NoRollbackRuns /\ [][FailureKeepsBindings /\ BindingsStay]_vars

\* C30: the REPL, after the input `let a = 1; b; let c = 2;` has failed at
\* b, has answered the input `a;` with 1; c is unbound
C30_Witness ==
    /\ driver = "repl" /\ Ended(SourceRead("a")) /\ inputs = 2
    /\ Final.res = Ok(ValueInt(1))
    /\ output = [kind |-> "value", text |-> "1"]
    /\ get(self_env, "c") = <<>>
====
